---- MODULE Spec2Model ----
(***************************************************************************)
(* A model of terminaide's backend orchestration layer:                    *)
(*   - the route table (terminaide/core/settings.py: ScriptConfig,         *)
(*     TTYDConfig): path normalisation, duplicate detection, resolution;   *)
(*   - the process supervisor (terminaide/core/manager.py: TTYDManager):   *)
(*     port allocation, start, stop, restart, health.                      *)
(* Strings are sequences of one-character strings, so that startswith,     *)
(* endswith and rstrip are computed character by character as Python does. *)
(***************************************************************************)
EXTENDS Integers, Sequences, FiniteSets, TLC

VARIABLES
    raw_routes,      \* the route paths handed to ScriptConfig(...), in order
    script_configs,  \* TTYDConfig.script_configs: the table, a sequence of descriptors
    build_status,    \* "init" | "ok" | "ConfigurationError"
    error_path,      \* the path named by the ConfigurationError, <<p>> or << >>
    req_path,        \* the path of the last get_script_config_for_path call
    resolved,        \* its result: <<descriptor>>, or << >> for None
    prev_resolved,   \* the result of the call before it with the same path
    resolve_calls    \* 0, 1 or 2 (two or more) calls made on this table

VARIABLES
    base_port,       \* TTYDConfig.port, the manager's _base_port
    foreign,         \* loopback ports bound by processes the manager did not spawn
    mgr,             \* TTYDManager(config): "none" | "ready" | "PortAllocationError"
    given_ports      \* history: the port of each descriptor as the table was built

VARIABLES
    debug,           \* TTYDConfig.debug
    processes,       \* TTYDManager.processes: route (table index) -> pid, NoProc if absent
    start_times,     \* TTYDManager.start_times: route -> time stamp, NoTime if absent
    os_procs,        \* the operating system's view of every process spawned so far
    next_pid,        \* the pid the next Popen gets; also the clock of start_times
    op,              \* the public method in progress, "idle" between calls
    pc,              \* the step of the method (or of the method it calls) to run next
    cur,             \* the route start_process / stop_process is working on
    loop_i,          \* start(): position of the for loop in the table
    success_count,   \* start(): success_count
    stop_todo,       \* stop(): the routes of list(self.processes.keys()) not yet stopped
    checks_done,     \* start_process(): completed iterations of the polling loop
    attempts,        \* history: the routes start() has called start_process for, in order
    outcomes,        \* history: how each of these calls ended
    result,          \* how the last public call ended
    health           \* the last check_health() snapshot, << >> if none

VARIABLES
    lifespan,        \* the lifespan context manager around the app: which one, its
                     \* phase, and whether serving ended with an exception
    proxy_manager    \* the ProxyManager made by configure_app: "none" | "open" | "closed"

VARIABLES
    threads,         \* two threads that call restart_process: for each its place
                     \* in the method, its route and its local variable process
    client_script,   \* TTYDConfig.client_script, the default script, or None
    mount_path,      \* TTYDConfig.mount_path, as normalized by its validator
    endpoints,       \* configure_routes: the terminal path registered per route
    handler_route,   \* the route whose handler received the request resolved
    mount_in,        \* the mount_path argument given to TTYDConfig, if any
    mount_out,       \* what validate_mount_path made of it: a value or an error
    apps,            \* the FastAPI apps given to serve_apps: app.state, middleware,
                     \* app.router.lifespan_context and what their startup did
    cmd_in,          \* _build_command: the settings and the environment it reads
    cmd_out,         \* _build_command: the list it returns or the error it raises
    serve,           \* serve_script / serve_function: the configuration served,
                     \* os.environ, and the TTYDConfig of either path
    ws,              \* one proxied WebSocket session on the first route
    http,            \* one proxied HTTP request on the second route
    reachable        \* the routes whose backend accepts connections

tvars == <<raw_routes, build_status, error_path,
           req_path, resolved, prev_resolved, resolve_calls>>

avars == <<base_port, foreign, mgr>>

PortsOf(cfgs) == [i \in 1..Len(cfgs) |-> cfgs[i].port]

pvars == <<processes, start_times>>

osvars == <<os_procs, next_pid>>

ctl == <<op, pc, cur>>

loopvars == <<loop_i, success_count, stop_todo, checks_done>>

hist == <<attempts, outcomes, result, health>>

lvars == <<lifespan, proxy_manager>>

thvars == <<threads>>

\* The variables outside the table and the single-threaded manager.
cfgvars == <<client_script, mount_path, endpoints, handler_route,
             mount_in, mount_out, apps>>

cmdvars == <<cmd_in, cmd_out>>

rlvars == <<serve>>

pxvars == <<ws, http, reachable>>

xvars == <<thvars, cfgvars, cmdvars, rlvars, pxvars>>

svars == <<debug, pvars, osvars, ctl, loopvars, hist, lvars, xvars>>

vars == <<tvars, script_configs, avars, given_ports, svars>>

-----------------------------------------------------------------------------
(* Bounds *)

MaxLen == 3
MaxRoutes == 2

Alphabet == {"/", "a"}

Strings(n) == UNION {[1..k -> Alphabet] : k \in 0..n}

Slash == <<"/">>
DefaultMountPath == Slash
Terminal == <<"/", "t", "e", "r", "m", "i", "n", "a", "l">>

NoPort == 0
NoTitle == "None"

-----------------------------------------------------------------------------
(* Python string helpers *)

startswith(s, p) == Len(p) <= Len(s) /\ SubSeq(s, 1, Len(p)) = p

endswith(s, p) == Len(p) <= Len(s) /\ SubSeq(s, Len(s) - Len(p) + 1, Len(s)) = p

RECURSIVE rstrip(_, _)
rstrip(v, ch) ==
    IF v # << >> /\ v[Len(v)] = ch THEN rstrip(SubSeq(v, 1, Len(v) - 1), ch) ELSE v

-----------------------------------------------------------------------------
(* ScriptConfig *)

validate_route_path(v) ==
    LET v1 == IF ~startswith(v, Slash) THEN Slash \o v ELSE v
    IN  IF v1 # Slash /\ endswith(v1, Slash) THEN rstrip(v1, "/") ELSE v1

ScriptConfig(route, script, p, t) ==
    [route_path |-> validate_route_path(route), client_script |-> script,
     port |-> p, title |-> t]

-----------------------------------------------------------------------------
(* TTYDConfig *)

\* Mutant: the duplicate check forgets the first descriptor's path.
FirstDuplicate_skips_first(cfgs) ==
    LET dups == {i \in 1..Len(cfgs) :
                    \E j \in 2..(i - 1) : cfgs[j].route_path = cfgs[i].route_path}
    IN  IF dups = {} THEN 0 ELSE CHOOSE i \in dups : \A k \in dups : i <= k

\* The index of the first descriptor whose path was already seen, 0 if none.
FirstDuplicate(cfgs) ==
    LET dups == {i \in 1..Len(cfgs) :
                    \E j \in 1..(i - 1) : cfgs[j].route_path = cfgs[i].route_path}
    IN  IF dups = {} THEN 0 ELSE CHOOSE i \in dups : \A k \in dups : i <= k

\* TTYDConfig.client_script is None.
NoScript == << >>

\* Mutant: the synthesized descriptor leaves port and title unset.
default_config_unset(script, base, title) ==
    ScriptConfig(Slash, script, NoPort, NoTitle)

\* ScriptConfig(route_path="/", client_script=self.client_script,
\*              port=self.port, title=self.title)
default_config(script, base, title) == ScriptConfig(Slash, script, base, title)

validate_script_configs(cfgs, script, base, title) ==
    LET d == FirstDuplicate(cfgs)
    IN  IF d # 0
        THEN [status |-> "ConfigurationError", error |-> <<cfgs[d].route_path>>,
              configs |-> << >>]
        ELSE [status |-> "ok", error |-> << >>,
              configs |-> IF cfgs = << >> /\ script # NoScript
                          THEN <<default_config(script, base, title)>>
                          ELSE cfgs]

-----------------------------------------------------------------------------
(* TTYDConfig.get_script_config_for_path *)

\* Mutant: reverse=True forgotten, shortest path first.
sorted_configs_ascending(cfgs) ==
    LET n == Len(cfgs)
        before(i, j) == \/ Len(cfgs[i].route_path) < Len(cfgs[j].route_path)
                        \/ /\ Len(cfgs[i].route_path) = Len(cfgs[j].route_path)
                           /\ i < j
        rank(i) == Cardinality({j \in 1..n : before(j, i)}) + 1
    IN  [k \in 1..n |-> cfgs[CHOOSE i \in 1..n : rank(i) = k]]

\* sorted(script_configs, key=len(route_path), reverse=True): a new list, stable
\* (descriptors of equal path length keep their table order).
sorted_configs(cfgs) ==
    LET n == Len(cfgs)
        before(i, j) == \/ Len(cfgs[i].route_path) > Len(cfgs[j].route_path)
                        \/ /\ Len(cfgs[i].route_path) = Len(cfgs[j].route_path)
                           /\ i < j
        rank(i) == Cardinality({j \in 1..n : before(j, i)}) + 1
    IN  [k \in 1..n |-> cfgs[CHOOSE i \in 1..n : rank(i) = k]]

\* The condition of the loop body, settings.py lines 179-181.
path_matches(config, path) ==
    \/ /\ config.route_path = Slash
       /\ (path = Slash \/ startswith(path, Terminal))
    \/ startswith(path, config.route_path)
    \/ startswith(path, config.route_path \o Terminal)

\* Mutant: no match is reported as None instead of the first descriptor.
no_match_result_none(cfgs) == << >>

\* The last line: self.script_configs[0] if self.script_configs else None.
no_match_result(cfgs) == IF cfgs # << >> THEN <<cfgs[1]>> ELSE << >>

get_script_config_for_path(cfgs, path) ==
    IF Len(cfgs) = 1
    THEN <<cfgs[1]>>
    ELSE LET s == sorted_configs(cfgs)
             hits == {k \in 1..Len(s) : path_matches(s[k], path)}
         IN  IF hits # {}
             THEN <<s[CHOOSE k \in hits : \A h \in hits : k <= h]>>
             ELSE no_match_result(cfgs)

\* Mutant: self.script_configs.sort(...) in place instead of sorted(...).
table_after_resolve_sorted_in_place(cfgs) == sorted_configs(cfgs)

\* What a resolve call leaves in self.script_configs: sorted() copies, so the
\* table itself is not reordered.
table_after_resolve(cfgs) == cfgs

-----------------------------------------------------------------------------
(* The route table: construction and resolution *)

DefaultScript == <<"client_script", 0>>
ScriptOf(i) == <<"script", i>>
DefaultTitle == "Terminal"
TableBasePort == 7681

\* Request paths: URL paths, which start with '/'.
RequestPaths ==
    {p \in Strings(MaxLen) : startswith(p, Slash)} \cup
    {p \o Terminal \o s : p \in {<< >>, <<"/", "a">>}, s \in {<< >>, <<"/", "w", "s">>}}

NoProc == 0
NoTime == 0
Threads == {1, 2}
NoThread == [pc |-> "idle", route |-> 0, process |-> 0, checks_done |-> 0,
             outcome |-> "none"]
NoSession == [st |-> "idle", client |-> "none", backend |-> "none",
              code |-> "none", up_sent |-> 0, up_queue |-> << >>,
              up_relayed |-> << >>, down_sent |-> 0, down_queue |-> << >>,
              down_relayed |-> << >>]
NoRequest == [st |-> "idle", response |-> "none"]
NoServe == [phase |-> "none", config |-> << >>, environ |-> << >>,
            direct |-> << >>, rebuilt |-> << >>]
NoCommand == [status |-> "none", cmd |-> << >>]
NoMount == [status |-> "none", value |-> << >>]

\* The applications that terminals are attached to.
Apps == {1, 2}

\* FastAPI(): no middleware, nothing on app.state, the router's default
\* lifespan context; not started.
NewApp == [sentinel |-> FALSE, middleware |-> 0,
           lifespan_context |-> <<"default">>, calls |-> 0,
           startup |-> "none", run |-> << >>, todo |-> << >>,
           entering |-> "none",
           managers |-> 0, starts |-> 0]
NoLifespan == [kind |-> "none", phase |-> "none", error |-> FALSE]
NoResult == [op |-> "none", route |-> 0, outcome |-> "none", count |-> 0,
             stderr |-> NoProc]

\* No manager yet: nothing spawned, no call in progress.
InitIdle ==
    /\ debug = FALSE
    /\ processes = << >>
    /\ start_times = << >>
    /\ os_procs = << >>
    /\ next_pid = 1
    /\ op = "idle"
    /\ pc = "idle"
    /\ cur = 0
    /\ loop_i = 0
    /\ success_count = 0
    /\ stop_todo = << >>
    /\ checks_done = 0
    /\ attempts = << >>
    /\ outcomes = << >>
    /\ result = NoResult
    /\ health = << >>
    /\ lifespan = NoLifespan
    /\ proxy_manager = "none"
    /\ threads = [t \in Threads |-> NoThread]
    /\ cmd_in = << >>
    /\ cmd_out = NoCommand
    /\ serve = NoServe
    /\ endpoints = << >>
    /\ handler_route = 0
    /\ mount_in = << >>
    /\ mount_out = NoMount
    /\ apps = [a \in Apps |-> NewApp]
    /\ ws = NoSession
    /\ http = NoRequest
    /\ reachable = {}

\* The default script matters only to a table given without descriptors
\* ("if not self.script_configs and self.client_script"): it is then set or
\* None; with descriptors the table is built with a default script set.
DefaultScripts(routes) ==
    IF routes = << >> THEN {NoScript, DefaultScript} ELSE {DefaultScript}

\* A configuration about to be built, mounted at one of mounts.
InitTableWith(mounts) ==
    /\ InitIdle
    /\ raw_routes \in UNION {[1..n -> Strings(MaxLen)] : n \in 0..MaxRoutes}
    /\ client_script \in DefaultScripts(raw_routes)
    /\ mount_path \in mounts
    /\ script_configs = << >>
    /\ build_status = "init"
    /\ error_path = << >>
    /\ req_path = << >>
    /\ resolved = << >>
    /\ prev_resolved = << >>
    /\ resolve_calls = 0
    /\ base_port = TableBasePort
    /\ foreign = {}
    /\ mgr = "none"
    /\ given_ports = << >>

InitTable == InitTableWith({DefaultMountPath})

\* TTYDConfig(script_configs=[ScriptConfig(route_path=r, ...) for r in raw_routes])
Build ==
    /\ build_status = "init"
    /\ LET cfgs == [i \in 1..Len(raw_routes) |->
                        ScriptConfig(raw_routes[i], ScriptOf(i), NoPort, NoTitle)]
           r == validate_script_configs(cfgs, client_script, base_port, DefaultTitle)
       IN  /\ build_status' = r.status
           /\ error_path' = r.error
           /\ script_configs' = r.configs
           /\ given_ports' = PortsOf(r.configs)
    /\ UNCHANGED <<raw_routes, req_path, resolved, prev_resolved, resolve_calls>>
    /\ UNCHANGED <<avars, svars>>

\* config.get_script_config_for_path(p); once a path has been asked for, the
\* later calls of the run ask for the same path again.
Resolve(p) ==
    /\ build_status = "ok"
    /\ resolve_calls = 0 \/ p = req_path
    /\ req_path' = p
    /\ resolved' = get_script_config_for_path(script_configs, p)
    /\ prev_resolved' = resolved
    /\ resolve_calls' = IF resolve_calls = 0 THEN 1 ELSE 2
    /\ script_configs' = table_after_resolve(script_configs)
    /\ UNCHANGED <<raw_routes, build_status, error_path>>
    /\ UNCHANGED <<avars, given_ports, svars>>

NextTable == Build \/ \E p \in RequestPaths : Resolve(p)

SpecTable == InitTable /\ [][NextTable]_vars

-----------------------------------------------------------------------------
(* Route table claims *)

NormalizedPaths ==
    [i \in 1..Len(raw_routes) |-> validate_route_path(raw_routes[i])]

PairwiseDistinct(ps) == \A i, j \in 1..Len(ps) : i # j => ps[i] # ps[j]

TablePaths == [i \in 1..Len(script_configs) |-> script_configs[i].route_path]

\* C1: building the table succeeds whenever the normalized paths are pairwise
\* distinct (the given descriptors are then the table), and fails with a
\* ConfigurationError naming a path that two descriptors share whenever two
\* normalized paths are equal.
C1_BuildUniqueOrNamesDuplicate ==
    build_status # "init" =>
        /\ PairwiseDistinct(NormalizedPaths) =>
              /\ build_status = "ok"
              /\ raw_routes # << >> => TablePaths = NormalizedPaths
        /\ ~PairwiseDistinct(NormalizedPaths) =>
              /\ build_status = "ConfigurationError"
              /\ Len(error_path) = 1
              /\ \E i, j \in 1..Len(raw_routes) :
                    /\ i # j
                    /\ NormalizedPaths[i] = error_path[1]
                    /\ NormalizedPaths[j] = error_path[1]

C1_Witness ==
    /\ build_status = "ConfigurationError"
    /\ raw_routes = << <<"a">>, <<"/", "a", "/">> >>
    /\ error_path = << <<"/", "a">> >>

WellFormedPath(p) == startswith(p, Slash) /\ (endswith(p, Slash) => p = Slash)

\* C2: every normalized route path of a built table starts with '/' and does
\* not end with '/' unless it is exactly '/'.
C2_NormalizedPathShape ==
    build_status = "ok" =>
        \A i \in 1..Len(script_configs) : WellFormedPath(script_configs[i].route_path)

IsPrefixOf(d, path) == startswith(path, d.route_path)

TableSet == {script_configs[i] : i \in 1..Len(script_configs)}

\* C3: in a table of two or more descriptors, when some descriptor path is a
\* prefix of the request path, resolve returns a descriptor whose path is a
\* prefix of the request path and no other prefix descriptor has a longer path.
C3_LongestPrefix ==
    (/\ resolve_calls > 0
     /\ Len(script_configs) >= 2
     /\ \E d \in TableSet : IsPrefixOf(d, req_path)) =>
        /\ Len(resolved) = 1
        /\ resolved[1] \in TableSet
        /\ IsPrefixOf(resolved[1], req_path)
        /\ \A e \in TableSet :
              IsPrefixOf(e, req_path) =>
                  Len(e.route_path) <= Len(resolved[1].route_path)

C3_Witness ==
    /\ resolve_calls > 0
    /\ Len(script_configs) = 2
    /\ script_configs[1].route_path = Slash
    /\ script_configs[2].route_path = <<"/", "a">>
    /\ req_path = <<"/", "a", "/">>
    /\ resolved = <<script_configs[2]>>

\* C4: on a non-empty table resolve returns a descriptor of the table, the
\* first one in table order when no descriptor matches; None only when the
\* table is empty.
C4_ResolveTotal ==
    resolve_calls > 0 =>
        /\ script_configs # << >> =>
              /\ Len(resolved) = 1
              /\ resolved[1] \in TableSet
              /\ (\A d \in TableSet : ~path_matches(d, req_path)) =>
                    resolved[1] = script_configs[1]
        /\ resolved = << >> => script_configs = << >>

C4_Witness ==
    /\ resolve_calls > 0
    /\ Len(script_configs) = 2
    /\ \A d \in TableSet : ~path_matches(d, req_path)
    /\ sorted_configs(script_configs)[1] # script_configs[1]
    /\ resolved = <<script_configs[1]>>

\* C5: a resolve call leaves the table (order and fields) unchanged, and a
\* repeated call with the same path returns the same descriptor as before.
C5_ResolvePure ==
    [][(/\ build_status = "ok"
        /\ <<req_path, resolved, prev_resolved, resolve_calls>>' #
               <<req_path, resolved, prev_resolved, resolve_calls>>) =>
          /\ script_configs' = script_configs
          /\ (resolve_calls >= 1 /\ req_path' = req_path) => resolved' = resolved]_vars

C5_Witness ==
    /\ resolve_calls = 2
    /\ Len(script_configs) = 2
    /\ sorted_configs(script_configs) # script_configs
    /\ prev_resolved = resolved
    /\ Len(resolved) = 1

-----------------------------------------------------------------------------
(* TTYDManager: port allocation *)

PortLimit == 65000

\* The while loop of _allocate_ports: the first port from p upward that is
\* neither claimed by a sibling nor bound on loopback; the bound is tested only
\* after an increment.
RECURSIVE scan_port(_, _, _)
scan_port(p, assigned_ports, in_use) ==
    IF p \in assigned_ports \/ p \in in_use
    THEN IF p + 1 > PortLimit
         THEN [exhausted |-> TRUE, port |-> p + 1]
         ELSE scan_port(p + 1, assigned_ports, in_use)
    ELSE [exhausted |-> FALSE, port |-> p]

\* The for loop over configs_to_assign (indices into the table, in table order).
RECURSIVE assign_ports(_, _, _, _, _)
assign_ports(cfgs, to_assign, assigned_ports, next_port, in_use) ==
    IF to_assign = << >>
    THEN [status |-> "ready", configs |-> cfgs]
    ELSE LET s == scan_port(next_port, assigned_ports, in_use)
             i == Head(to_assign)
         IN  IF s.exhausted
             THEN [status |-> "PortAllocationError", configs |-> cfgs]
             ELSE assign_ports([cfgs EXCEPT ![i].port = s.port], Tail(to_assign),
                               assigned_ports \cup {s.port}, s.port + 1, in_use)

\* Mutant: every descriptor is given a port, the pre-set ones too.
configs_to_assign_all(cfgs) == [k \in 1..Len(cfgs) |-> k]

\* configs_to_assign: the descriptors whose port is None, in table order.
configs_to_assign(cfgs) ==
    LET idx == {i \in 1..Len(cfgs) : cfgs[i].port = NoPort}
        nth(k) == CHOOSE i \in idx : Cardinality({j \in idx : j < i}) = k - 1
    IN  [k \in 1..Cardinality(idx) |-> nth(k)]

allocate_ports(cfgs, base, in_use) ==
    assign_ports(cfgs, configs_to_assign(cfgs),
                 {cfgs[i].port : i \in {j \in 1..Len(cfgs) : cfgs[j].port # NoPort}},
                 base, in_use)

\* TTYDManager.__init__: records the base port and allocates the ports. The
\* descriptors are mutated in place, so the ports given before a
\* PortAllocationError stay in the table.
Construct ==
    /\ build_status = "ok"
    /\ mgr = "none"
    /\ LET r == allocate_ports(script_configs, base_port, foreign)
       IN  /\ mgr' = r.status
           /\ script_configs' = r.configs
    /\ processes' = [i \in 1..Len(script_configs) |-> NoProc]
    /\ start_times' = [i \in 1..Len(script_configs) |-> NoTime]
    /\ UNCHANGED <<tvars, base_port, foreign, given_ports>>
    /\ UNCHANGED <<debug, osvars, ctl, loopvars, hist>>

-----------------------------------------------------------------------------
(* Port allocation on tables whose ports lie around the upper bound *)

PortSpan == 2

AllocPorts == (PortLimit - PortSpan)..(PortLimit + 1)

RoutePath(i) == IF i = 1 THEN Slash ELSE Slash \o [k \in 1..(i - 1) |-> "a"]

\* A valid table: n descriptors with distinct normalized paths, each port
\* pre-set or None.
BuiltTable(n, ports) ==
    [i \in 1..n |-> ScriptConfig(RoutePath(i), ScriptOf(i), ports[i], NoTitle)]

InitAlloc ==
    /\ InitIdle
    /\ raw_routes = << >>
    /\ build_status = "ok"
    /\ error_path = << >>
    /\ req_path = << >>
    /\ resolved = << >>
    /\ prev_resolved = << >>
    /\ resolve_calls = 0
    /\ base_port \in AllocPorts
    /\ foreign \in SUBSET AllocPorts
    /\ mgr = "none"
    /\ client_script = DefaultScript
    /\ mount_path = DefaultMountPath
    /\ \E n \in 1..MaxRoutes :
          \E ports \in [1..n -> {NoPort} \cup AllocPorts] :
              /\ script_configs = BuiltTable(n, ports)
              /\ given_ports = ports

SpecAlloc == InitAlloc /\ [][Construct /\ UNCHANGED <<lvars, xvars>>]_vars

-----------------------------------------------------------------------------
(* Port allocation claims *)

\* C6: after port allocation has completed, the descriptors of the table hold
\* pairwise distinct ports, whatever ports were pre-set.
C6_DistinctPortsAfterAllocation ==
    mgr = "ready" => PairwiseDistinct(PortsOf(script_configs))

\* C7: port allocation never gives a descriptor a port above 65000 (stated for
\* base ports that are themselves within the bound).
C7_NoPortAbove65000 ==
    (mgr # "none" /\ base_port <= PortLimit) =>
        \A i \in 1..Len(script_configs) :
            given_ports[i] = NoPort => script_configs[i].port <= PortLimit

-----------------------------------------------------------------------------
(* TTYDManager: the operating system as the manager sees it *)

MaxSpawns == 2

Routes == 1..Len(script_configs)

Pids == 1..(next_pid - 1)

\* What the system holds for a process that has exited: no socket, no signal
\* under way.
Exited(p) == [st |-> "exited", port |-> p.port, bound |-> FALSE, sig |-> "none"]

\* Mutant: the probe sees only listeners the manager did not spawn.
is_port_in_use_foreign_only(port) == port \in foreign

\* _is_port_in_use: a connection to the port succeeds.
is_port_in_use(port) ==
    \/ port \in foreign
    \/ \E pid \in Pids : /\ os_procs[pid].st = "alive"
                         /\ os_procs[pid].bound
                         /\ os_procs[pid].port = port

\* process.poll() is not None
has_exited(pid) == os_procs[pid].st = "exited"

is_process_running(route) ==
    processes[route] # NoProc /\ ~has_exited(processes[route])

\* _kill_process_on_port: kill -9 on every pid lsof reports for the port. What
\* dies depends on the platform, on lsof and on who owns the occupant:
\* nothing, the manager's own children only, or every occupant.
KillOutcomes == {"none", "own", "all"}

killed_procs(port, how) ==
    [pid \in Pids |->
        IF /\ how # "none"
           /\ os_procs[pid].st = "alive"
           /\ os_procs[pid].bound
           /\ os_procs[pid].port = port
        THEN Exited(os_procs[pid])
        ELSE os_procs[pid]]

killed_foreign(port, how) == IF how = "all" THEN foreign \ {port} ELSE foreign

\* A backend dies (crash, bind failure, a signal taking effect).
BackendExit(pid) ==
    /\ pid \in Pids
    /\ os_procs[pid].st = "alive"
    /\ os_procs' = [os_procs EXCEPT ![pid] = Exited(os_procs[pid])]
    /\ UNCHANGED <<tvars, script_configs, avars, given_ports>>
    /\ UNCHANGED <<debug, pvars, next_pid, ctl, loopvars, hist>>

\* A live backend binds its port and starts accepting connections.
BackendListen(pid) ==
    /\ pid \in Pids
    /\ os_procs[pid].st = "alive"
    /\ ~os_procs[pid].bound
    /\ ~is_port_in_use(os_procs[pid].port)
    /\ os_procs' = [os_procs EXCEPT ![pid].bound = TRUE]
    /\ UNCHANGED <<tvars, script_configs, avars, given_ports>>
    /\ UNCHANGED <<debug, pvars, next_pid, ctl, loopvars, hist>>

-----------------------------------------------------------------------------
(* TTYDManager: how a public method ends *)

\* The public method in progress ends with outcome o ("ok" for a normal
\* return, else the exception that leaves it); the caller holds the result.
\* err is the process whose stderr output the exception carries
\* (TTYDStartupError(stderr=stderr)), NoProc if it carries none.
FinishWith(name, route, o, count, err) ==
    /\ pc' = "returned"
    /\ op' = "idle"
    /\ result' = [op |-> name, route |-> route, outcome |-> o, count |-> count,
                  stderr |-> err]

Finish(name, route, o, count) == FinishWith(name, route, o, count, NoProc)

\* The caller drops the result; the manager waits for the next call.
Return ==
    /\ pc = "returned"
    /\ pc' = "idle"
    /\ cur' = 0
    /\ loop_i' = 0
    /\ success_count' = 0
    /\ stop_todo' = << >>
    /\ checks_done' = 0
    /\ attempts' = << >>
    /\ outcomes' = << >>
    /\ result' = NoResult
    /\ health' = << >>
    /\ UNCHANGED <<tvars, script_configs, avars, given_ports>>
    /\ UNCHANGED <<debug, pvars, osvars, op>>

-----------------------------------------------------------------------------
(* TTYDManager.start_process *)

NormalChecks == 20
DebugChecks == 40

\* checks = int(timeout / check_interval)
checks == IF debug THEN DebugChecks ELSE NormalChecks

\* Mutant: success_count += 1 outside the try, so failures are counted too.
count_every_attempt(count, o) == count + 1

\* start(): success_count after one more start_process call that ended in o.
count_success(count, o) == IF o = "ok" THEN count + 1 ELSE count

\* start_process ends with outcome o, the exception carrying the stderr
\* output of process err. Inside start() an exception is caught, logged and
\* dropped, and the loop goes on; restart_process and a direct call pass it on.
SpEndWith(o, err) ==
    /\ checks_done' = 0
    /\ IF op = "start"
       THEN /\ pc' = "start_loop"
            /\ loop_i' = loop_i + 1
            /\ success_count' = count_success(success_count, o)
            /\ outcomes' = Append(outcomes, o)
            /\ UNCHANGED <<op, cur, stop_todo, attempts, result, health>>
       ELSE /\ FinishWith(op, cur, o, 0, err)
            /\ UNCHANGED <<cur, loop_i, success_count, stop_todo, attempts,
                           outcomes, health>>

SpEnd(o) == SpEndWith(o, NoProc)

\* Mutant: the failure paths of the polling loop clear the whole dictionary.
popped_all(map, route, none) == [r \in DOMAIN map |-> none]

\* Mutant: the failure paths of the polling loop keep the record.
popped_nothing(map, route, none) == map

\* map.pop(route, None), none being the model's value for an absent key.
popped(map, route, none) == [map EXCEPT ![route] = none]

SpawnOutcomes == {"ok", "OSError", "SubprocessError"}

\* subprocess.Popen(cmd, ..., start_new_session=True) and the two assignments
\* after it. An OSError (binary missing, not executable) is not a
\* SubprocessError and leaves start_process as it is; a SubprocessError is
\* reported as TTYDStartupError.
Spawn(how) ==
    IF how = "ok"
    THEN /\ os_procs' = Append(os_procs,
                               [st |-> "alive", port |-> script_configs[cur].port,
                                bound |-> FALSE, sig |-> "none"])
         /\ next_pid' = next_pid + 1
         /\ processes' = [processes EXCEPT ![cur] = next_pid]
         /\ start_times' = [start_times EXCEPT ![cur] = next_pid]
         /\ pc' = "sp_poll"
         /\ checks_done' = 0
         /\ UNCHANGED <<op, cur, loop_i, success_count, stop_todo, hist>>
    ELSE /\ SpEnd(IF how = "OSError" THEN "OSError" ELSE "TTYDStartupError")
         /\ UNCHANGED <<pvars, osvars>>

\* Mutant: start_process without the already-running test.
already_running_never(route) == FALSE

\* route_path in self.processes and self.is_process_running(route_path)
already_running(route) == processes[route] # NoProc /\ is_process_running(route)

\* Lines 208-236: the already-running test, the port test with the attempt to
\* kill the occupant, and, when the port is free, the spawn.
SpCheck ==
    /\ pc = "sp_check"
    /\ IF already_running(cur)
       THEN /\ SpEnd("TTYDProcessError")
            /\ UNCHANGED <<pvars, osvars, foreign>>
       ELSE IF is_port_in_use(script_configs[cur].port)
       THEN \E how \in KillOutcomes :
               /\ os_procs' = killed_procs(script_configs[cur].port, how)
               /\ foreign' = killed_foreign(script_configs[cur].port, how)
               /\ pc' = "sp_recheck"
               /\ UNCHANGED <<pvars, next_pid, op, cur, loopvars, hist>>
       ELSE /\ \E how \in SpawnOutcomes : Spawn(how)
            /\ UNCHANGED foreign
    /\ UNCHANGED <<tvars, script_configs, base_port, mgr, given_ports, debug>>

\* Lines 217-236: after time.sleep(1.0), the second port test.
SpRecheck ==
    /\ pc = "sp_recheck"
    /\ IF is_port_in_use(script_configs[cur].port)
       THEN /\ SpEnd("TTYDStartupError")
            /\ UNCHANGED <<pvars, osvars>>
       ELSE \E how \in SpawnOutcomes : Spawn(how)
    /\ UNCHANGED <<tvars, script_configs, avars, given_ports, debug>>

\* Lines 243-248: process.poll() at the top of a polling iteration; for a
\* process that has exited, its stderr is read, the record and the start time
\* are popped and TTYDStartupError(stderr=stderr) is raised.
SpPoll ==
    /\ pc = "sp_poll"
    /\ IF has_exited(processes[cur])
       THEN /\ processes' = popped(processes, cur, NoProc)
            /\ start_times' = popped(start_times, cur, NoTime)
            /\ SpEndWith("TTYDStartupError", processes[cur])
       ELSE /\ pc' = "sp_running"
            /\ UNCHANGED <<pvars, op, cur, loopvars, hist>>
    /\ UNCHANGED <<tvars, script_configs, avars, given_ports, debug, osvars>>

\* Lines 250-260: is_process_running(route_path), else the sleep and the next
\* iteration, or the timeout once the iterations are used up.
SpRunning ==
    /\ pc = "sp_running"
    /\ IF is_process_running(cur)
       THEN /\ SpEnd("ok")
            /\ UNCHANGED pvars
       ELSE IF checks_done + 1 < checks
       THEN /\ checks_done' = checks_done + 1
            /\ pc' = "sp_poll"
            /\ UNCHANGED <<pvars, op, cur, loop_i, success_count, stop_todo, hist>>
       ELSE /\ processes' = popped(processes, cur, NoProc)
            /\ start_times' = popped(start_times, cur, NoTime)
            /\ SpEnd("TTYDStartupError")
    /\ UNCHANGED <<tvars, script_configs, avars, given_ports, debug, osvars>>

-----------------------------------------------------------------------------
(* TTYDManager.stop_process *)

\* The routes that have a process record, in ascending table position.
RECURSIVE recorded_from(_)
recorded_from(i) ==
    IF i > Len(processes) THEN << >>
    ELSE IF processes[i] # NoProc THEN <<i>> \o recorded_from(i + 1)
    ELSE recorded_from(i + 1)

\* stop_process returns (it never raises): stop() goes on with its next route,
\* restart_process goes on to start_process, a direct call is over.
StEnd ==
    IF op = "stop"
    THEN /\ stop_todo' = Tail(stop_todo)
         /\ IF Tail(stop_todo) = << >>
            THEN /\ Finish("stop", 0, "ok", 0)
                 /\ UNCHANGED cur
            ELSE /\ pc' = "st_begin"
                 /\ cur' = Head(Tail(stop_todo))
                 /\ UNCHANGED <<op, result>>
         /\ UNCHANGED <<loop_i, success_count, checks_done, attempts, outcomes, health>>
    ELSE IF op = "restart_process"
    THEN /\ pc' = "sp_check"
         /\ UNCHANGED <<op, cur, loopvars, hist>>
    ELSE /\ Finish(op, cur, "ok", 0)
         /\ UNCHANGED <<cur, loopvars, attempts, outcomes, health>>

\* Mutant: stop_process returns without the two pops.
KeepRecord == UNCHANGED pvars

\* self.processes.pop(route_path, None); self.start_times.pop(route_path, None)
PopRecord ==
    /\ processes' = [processes EXCEPT ![cur] = NoProc]
    /\ start_times' = [start_times EXCEPT ![cur] = NoTime]

SignalOutcomes == {"delivered", "error"}

\* The sig field of a process is the last signal sent to it by the
\* stop_process call that is stopping it; the call over, the field is cleared.
signals_over(pid) == [os_procs EXCEPT ![pid].sig = "none"]

\* Lines 290-305: no record, return at once; else SIGTERM to the process
\* group. A process that is gone gets no signal (ProcessLookupError, passed
\* over); any other error of the signalling is logged and the record dropped.
StBegin ==
    /\ pc = "st_begin"
    /\ IF processes[cur] = NoProc
       THEN /\ StEnd
            /\ UNCHANGED <<pvars, osvars>>
       ELSE \E how \in SignalOutcomes :
               IF how = "error"
               THEN /\ PopRecord
                    /\ StEnd
                    /\ UNCHANGED osvars
               ELSE /\ os_procs' = IF has_exited(processes[cur]) THEN os_procs
                                   ELSE [os_procs EXCEPT ![processes[cur]].sig = "TERM"]
                    /\ pc' = "st_wait"
                    /\ UNCHANGED <<pvars, next_pid, op, cur, loopvars, hist>>
    /\ UNCHANGED <<tvars, script_configs, avars, given_ports, debug>>

\* Mutant: the grace-period wait times out whatever the process did.
wait_always_times_out(pid) == FALSE

\* process.wait(timeout=5) returns instead of raising TimeoutExpired: the
\* process has exited by the end of the grace period.
wait_returns(pid) == has_exited(pid)

\* Lines 307-317: process.wait(timeout=5) returns because the process has
\* exited, or times out and SIGKILL goes to the process group; an error of
\* that signalling other than ProcessLookupError is logged and the record
\* dropped.
StWait ==
    /\ pc = "st_wait"
    /\ IF wait_returns(processes[cur])
       THEN /\ PopRecord
            /\ StEnd
            /\ UNCHANGED osvars
       ELSE \E how \in SignalOutcomes :
               IF how = "error"
               THEN /\ PopRecord
                    /\ StEnd
                    /\ os_procs' = signals_over(processes[cur])
                    /\ UNCHANGED next_pid
               ELSE /\ os_procs' = [os_procs EXCEPT ![processes[cur]].sig = "KILL"]
                    /\ pc' = "st_wait_kill"
                    /\ UNCHANGED <<pvars, next_pid, op, cur, loopvars, hist>>
    /\ UNCHANGED <<tvars, script_configs, avars, given_ports, debug>>

\* Lines 318-326: process.wait(timeout=1), its timeout passed over, and the
\* record dropped whether or not the process has exited by then.
StWaitKill ==
    /\ pc = "st_wait_kill"
    /\ PopRecord
    /\ StEnd
    /\ os_procs' = signals_over(processes[cur])
    /\ UNCHANGED <<tvars, script_configs, avars, given_ports, debug, next_pid>>

-----------------------------------------------------------------------------
(* TTYDManager: the public methods *)

Idle == mgr = "ready" /\ pc = "idle"

\* start(): the call and the head of its for loop.
StartCall ==
    /\ Idle
    /\ next_pid - 1 + Len(script_configs) <= MaxSpawns
    /\ IF script_configs = << >>
       THEN /\ Finish("start", 0, "TTYDStartupError", 0)
            /\ UNCHANGED <<loop_i, success_count>>
       ELSE /\ op' = "start"
            /\ pc' = "start_loop"
            /\ loop_i' = 1
            /\ success_count' = 0
            /\ UNCHANGED result
    /\ UNCHANGED <<tvars, script_configs, avars, given_ports>>
    /\ UNCHANGED <<debug, pvars, osvars, cur, stop_todo, checks_done>>
    /\ UNCHANGED <<attempts, outcomes, health>>

\* start(): the next descriptor goes to start_process, or the loop is over and
\* the count is reported.
StartLoop ==
    /\ pc = "start_loop"
    /\ IF loop_i <= Len(script_configs)
       THEN /\ cur' = loop_i
            /\ pc' = "sp_check"
            /\ attempts' = Append(attempts, loop_i)
            /\ UNCHANGED <<op, result>>
       ELSE /\ Finish("start", 0, "ok", success_count)
            /\ UNCHANGED <<cur, attempts>>
    /\ UNCHANGED <<tvars, script_configs, avars, given_ports>>
    /\ UNCHANGED <<debug, pvars, osvars, loopvars, outcomes, health>>

StartProcessCall(route) ==
    /\ Idle
    /\ route \in Routes
    /\ next_pid <= MaxSpawns
    /\ op' = "start_process"
    /\ cur' = route
    /\ pc' = "sp_check"
    /\ UNCHANGED <<tvars, script_configs, avars, given_ports>>
    /\ UNCHANGED <<debug, pvars, osvars, loopvars, hist>>

StopProcessCall(route) ==
    /\ Idle
    /\ route \in Routes
    /\ op' = "stop_process"
    /\ cur' = route
    /\ pc' = "st_begin"
    /\ UNCHANGED <<tvars, script_configs, avars, given_ports>>
    /\ UNCHANGED <<debug, pvars, osvars, loopvars, hist>>

\* stop(): nothing recorded, return; else stop_process for every recorded route.
StopCall ==
    /\ Idle
    /\ IF recorded_from(1) = << >>
       THEN /\ Finish("stop", 0, "ok", 0)
            /\ UNCHANGED <<cur, stop_todo>>
       ELSE /\ op' = "stop"
            /\ stop_todo' = recorded_from(1)
            /\ cur' = Head(recorded_from(1))
            /\ pc' = "st_begin"
            /\ UNCHANGED result
    /\ UNCHANGED <<tvars, script_configs, avars, given_ports>>
    /\ UNCHANGED <<debug, pvars, osvars, loop_i, success_count, checks_done>>
    /\ UNCHANGED <<attempts, outcomes, health>>

UnknownRoute == 0

\* Mutant: restart_process goes straight to start_process.
restart_skips_stop == "sp_check"

\* Line 393: with the descriptor found, restart_process first calls
\* stop_process.
restart_first == "st_begin"

\* restart_process(route_path): the descriptor is looked up (UnknownRoute: a
\* path that is not in the table), then stop_process, then start_process.
RestartCall(route) ==
    /\ Idle
    /\ route \in Routes \cup {UnknownRoute}
    /\ next_pid <= MaxSpawns
    /\ IF route = UnknownRoute
       THEN /\ Finish("restart_process", route, "TTYDStartupError", 0)
            /\ UNCHANGED cur
       ELSE /\ op' = "restart_process"
            /\ cur' = route
            /\ pc' = restart_first
            /\ UNCHANGED result
    /\ UNCHANGED <<tvars, script_configs, avars, given_ports>>
    /\ UNCHANGED <<debug, pvars, osvars, loopvars>>
    /\ UNCHANGED <<attempts, outcomes, health>>

\* get_process_uptime(route) is not None
uptime_known(route) == is_process_running(route) /\ start_times[route] # NoTime

\* One element of processes_health; uptime is TRUE for a number, FALSE for
\* None, pid is NoProc for None.
health_entry(r, running, uptime) ==
    [route_path |-> script_configs[r].route_path,
     status |-> IF running THEN "running" ELSE "stopped",
     uptime |-> uptime,
     port |-> script_configs[r].port,
     pid |-> IF running THEN processes[r] ELSE NoProc]

\* len(self.processes)
process_count == Cardinality({r \in Routes : processes[r] # NoProc})

\* What check_health reports when no process changes state during the call.
check_health ==
    [processes |->
        [r \in Routes |-> health_entry(r, is_process_running(r), uptime_known(r))],
     process_count |-> process_count]

\* The routes whose backend exits while check_health builds their entry,
\* between the poll of is_process_running (line 353) and the poll inside
\* get_process_uptime (line 358).
ExitsBetweenPolls == SUBSET {r \in Routes : is_process_running(r)}

\* check_health(): for each descriptor, running = is_process_running(...)
\* fixes status and pid, and get_process_uptime polls the process a second
\* time. An exit before the first poll or after the second is a BackendExit
\* step before or after the call.
HealthCall ==
    /\ Idle
    /\ \E mid \in ExitsBetweenPolls :
          /\ os_procs' = [pid \in Pids |->
                             IF \E r \in mid : processes[r] = pid
                             THEN Exited(os_procs[pid])
                             ELSE os_procs[pid]]
          /\ health' = <<[processes |->
                             [r \in Routes |->
                                 IF r \in mid
                                 THEN health_entry(r, TRUE, FALSE)
                                 ELSE health_entry(r, is_process_running(r),
                                                   uptime_known(r))],
                          process_count |-> process_count]>>
    /\ Finish("check_health", 0, "ok", 0)
    /\ UNCHANGED <<tvars, script_configs, avars, given_ports>>
    /\ UNCHANGED <<debug, pvars, next_pid, cur, loopvars, attempts, outcomes>>

-----------------------------------------------------------------------------
(* The supervisor: one manager over a valid table, its caller and the system *)

PresetPorts == {NoPort, TableBasePort}

Init ==
    /\ InitIdle
    /\ raw_routes = << >>
    /\ build_status = "ok"
    /\ error_path = << >>
    /\ req_path = << >>
    /\ resolved = << >>
    /\ prev_resolved = << >>
    /\ resolve_calls = 0
    /\ base_port = TableBasePort
    /\ foreign \in SUBSET {TableBasePort}
    /\ mgr = "none"
    /\ client_script = DefaultScript
    /\ mount_path = DefaultMountPath
    /\ \E n \in 1..MaxRoutes :
          \E ports \in [1..n -> PresetPorts] :
              /\ script_configs = BuiltTable(n, ports)
              /\ given_ports = ports

Next ==
    \/ Construct /\ UNCHANGED <<lvars, xvars>>
    \/ StartCall /\ UNCHANGED <<lvars, xvars>>
    \/ StartLoop /\ UNCHANGED <<lvars, xvars>>
    \/ \E r \in Routes : StartProcessCall(r) /\ UNCHANGED <<lvars, xvars>>
    \/ \E r \in Routes : StopProcessCall(r) /\ UNCHANGED <<lvars, xvars>>
    \/ StopCall /\ UNCHANGED <<lvars, xvars>>
    \/ \E r \in Routes \cup {UnknownRoute} : RestartCall(r) /\ UNCHANGED <<lvars, xvars>>
    \/ HealthCall /\ UNCHANGED <<lvars, xvars>>
    \/ Return /\ UNCHANGED <<lvars, xvars>>
    \/ SpCheck /\ UNCHANGED <<lvars, xvars>>
    \/ SpRecheck /\ UNCHANGED <<lvars, xvars>>
    \/ SpPoll /\ UNCHANGED <<lvars, xvars>>
    \/ SpRunning /\ UNCHANGED <<lvars, xvars>>
    \/ StBegin /\ UNCHANGED <<lvars, xvars>>
    \/ StWait /\ UNCHANGED <<lvars, xvars>>
    \/ StWaitKill /\ UNCHANGED <<lvars, xvars>>
    \/ \E pid \in Pids : BackendExit(pid) /\ UNCHANGED <<lvars, xvars>>
    \/ \E pid \in Pids : BackendListen(pid) /\ UNCHANGED <<lvars, xvars>>

Spec == Init /\ [][Next]_vars

-----------------------------------------------------------------------------
(* Supervisor claims *)

\* C8: a descriptor that has a port keeps it: no step of the construction
\* (allocation included, for pre-set ports) nor of start, start_process,
\* stop_process, stop, restart_process or check_health changes it.
C8_PortFixedOnceSet ==
    [][\A i \in 1..Len(script_configs) :
          script_configs[i].port # NoPort =>
              /\ Len(script_configs') = Len(script_configs)
              /\ script_configs'[i].port = script_configs[i].port]_vars

C8_Witness ==
    /\ pc = "returned"
    /\ result.op = "restart_process"
    /\ result.outcome = "ok"
    /\ given_ports = <<NoPort, TableBasePort>>
    /\ PortsOf(script_configs) = <<TableBasePort + 1, TableBasePort>>

InStartProcess == pc \in {"sp_check", "sp_recheck", "sp_poll", "sp_running"}

\* C9: start() calls start_process for the descriptors in table order, one
\* call at a time and each descriptor once; a failed call does not stop the
\* loop or make start() raise, and the count reported is the number of calls
\* that succeeded.
C9_StartAllSequential ==
    /\ op = "start" =>
          /\ attempts = [k \in 1..Len(attempts) |-> k]
          /\ pc = "start_loop" =>
                Len(outcomes) = Len(attempts) /\ loop_i = Len(attempts) + 1
          /\ InStartProcess =>
                Len(attempts) = Len(outcomes) + 1 /\ cur = Len(attempts)
    /\ (pc = "returned" /\ result.op = "start") =>
          /\ result.outcome = "ok"
          /\ attempts = [k \in 1..Len(script_configs) |-> k]
          /\ Len(outcomes) = Len(script_configs)
          /\ result.count =
                Cardinality({k \in 1..Len(outcomes) : outcomes[k] = "ok"})

C9_Witness ==
    /\ pc = "returned"
    /\ result.op = "start"
    /\ outcomes = <<"TTYDStartupError", "ok">>
    /\ result.count = 1
    /\ is_process_running(2)

\* C10: start_process returns normally only when the port of the backend it
\* spawned accepts connections: a backend that is alive when start_process has
\* just returned is bound to its port.
C10_StartedOnlyWhenReachable ==
    (/\ pc = "returned"
     /\ result.op = "start_process"
     /\ result.outcome = "ok"
     /\ is_process_running(result.route)) =>
        os_procs[processes[result.route]].bound

-----------------------------------------------------------------------------
(* start_process: failure paths *)

\* start_process ends in this step with outcome o: inside start() the outcome
\* is appended to the loop's history, otherwise the call returns it.
SpEnds(o) ==
    /\ InStartProcess
    /\ IF op = "start"
       THEN outcomes' = Append(outcomes, o)
       ELSE pc' = "returned" /\ result'.outcome = o

\* C11: a polling iteration of start_process that finds the spawned backend
\* exited ends the call with TTYDStartupError carrying that process's stderr,
\* with the route's record and start time removed and check_health reporting
\* the route stopped; and start_process never ends normally in a step in
\* which the backend it spawned has already exited.
C11_ExitedBackendFailsStart ==
    [][/\ (pc = "sp_poll" /\ has_exited(processes[cur]) /\ pc' # pc) =>
            /\ SpEnds("TTYDStartupError")
            /\ op # "start" => result'.stderr = processes[cur]
            /\ processes'[cur] = NoProc
            /\ start_times'[cur] = NoTime
            /\ check_health'.processes[cur].status = "stopped"
       /\ SpEnds("ok") =>
            /\ processes[cur] # NoProc
            /\ ~has_exited(processes[cur])
            /\ processes' = processes]_vars

C11_Witness ==
    /\ pc = "returned"
    /\ result.op = "start_process"
    /\ result.outcome = "TTYDStartupError"
    /\ result.stderr # NoProc
    /\ has_exited(result.stderr)
    /\ processes[result.route] = NoProc
    /\ start_times[result.route] = NoTime

\* C12: a polling iteration of start_process that finds the spawned backend
\* neither exited nor accepting connections on its port polls again while
\* iterations remain, and at the last one (checks iterations: 20, 40 in debug)
\* ends the call with TTYDStartupError and removes the route's record; the
\* loop never runs more than checks iterations.
C12_TimeoutWhenNeverReady ==
    [][/\ (/\ pc = "sp_running"
           /\ pc' # pc
           /\ processes[cur] # NoProc
           /\ ~has_exited(processes[cur])
           /\ ~os_procs[processes[cur]].bound) =>
             IF checks_done + 1 < checks
             THEN pc' = "sp_poll" /\ checks_done' = checks_done + 1
             ELSE SpEnds("TTYDStartupError") /\ processes'[cur] = NoProc
       /\ checks_done' < checks]_vars

\* Some process, the manager's or not, listens on the port.
Occupied(port) ==
    \/ port \in foreign
    \/ \E pid \in Pids : os_procs[pid] = [st |-> "alive", port |-> port,
                                          bound |-> TRUE, sig |-> os_procs[pid].sig]

\* The processes that exist stay as they are.
NothingKilled ==
    /\ foreign' = foreign
    /\ \A pid \in Pids : os_procs'[pid] = os_procs[pid]

NothingSpawned == next_pid' = next_pid /\ processes' = processes

\* C13: start_process for a route that is not already running, finding the
\* port occupied, tries to kill the occupants and goes to the second port
\* test without spawning; a second test that still finds the port occupied
\* ends the call with TTYDStartupError, nothing spawned and no record made;
\* with the port free at the first test, no process is killed.
C13_OccupiedPortKillThenFail ==
    [][/\ (/\ pc = "sp_check"
           /\ pc' # pc
           /\ ~is_process_running(cur)) =>
             IF Occupied(script_configs[cur].port)
             THEN /\ pc' = "sp_recheck"
                  /\ NothingSpawned
                  /\ \E how \in KillOutcomes :
                        /\ os_procs' = killed_procs(script_configs[cur].port, how)
                        /\ foreign' = killed_foreign(script_configs[cur].port, how)
             ELSE /\ pc' # "sp_recheck"
                  /\ NothingKilled
       /\ (/\ pc = "sp_recheck"
           /\ pc' # pc
           /\ Occupied(script_configs[cur].port)) =>
             /\ SpEnds("TTYDStartupError")
             /\ NothingSpawned
             /\ NothingKilled]_vars

C13_Witness ==
    /\ pc = "returned"
    /\ result.op = "start_process"
    /\ result.outcome = "TTYDStartupError"
    /\ script_configs[result.route].port \in foreign
    /\ processes[result.route] = NoProc
    /\ os_procs = << >>

\* The route has a record and the process of the record has not exited.
LiveRecord(r) == processes[r] # NoProc /\ os_procs[processes[r]].st = "alive"

\* C14: start_process for a route whose recorded process is alive ends at
\* once with TTYDProcessError: no port test, nothing killed, nothing spawned,
\* record and start time as they were. Hence the record of a live process is
\* never replaced: a route gets a new process only when it has no record or
\* the recorded process has exited.
C14_AlreadyRunningRejected ==
    [][mgr = "ready" =>
         /\ (pc = "sp_check" /\ pc' # pc /\ LiveRecord(cur)) =>
               /\ SpEnds("TTYDProcessError")
               /\ NothingSpawned
               /\ NothingKilled
               /\ start_times' = start_times
         /\ \A r \in Routes :
               (processes'[r] # NoProc /\ processes'[r] # processes[r]) =>
                   ~LiveRecord(r)]_vars

C14_Witness ==
    /\ pc = "returned"
    /\ result.op = "start_process"
    /\ result.outcome = "TTYDProcessError"
    /\ LiveRecord(result.route)
    /\ start_times[result.route] = processes[result.route]

-----------------------------------------------------------------------------
(* stop_process, stop, restart_process *)

NoRecord(r) == processes[r] = NoProc /\ start_times[r] = NoTime

\* C15: stop_process and stop always return normally, whatever the signalling
\* and the waits did; when stop_process has returned (to its caller, or to
\* restart_process which goes on to start_process) the route has neither a
\* record nor a start time, and when stop has returned no route has.
C15_StopNeverRaisesAndClears ==
    /\ (pc = "returned" /\ result.op = "stop_process") =>
          result.outcome = "ok" /\ NoRecord(result.route)
    /\ (pc = "returned" /\ result.op = "stop") =>
          result.outcome = "ok" /\ \A r \in Routes : NoRecord(r)
    /\ (pc = "sp_check" /\ op = "restart_process") => NoRecord(cur)

\* stop() has returned after a stop_process whose process was still alive
\* when its record was dropped (a signalling error, or both signals survived).
C15_Witness ==
    /\ pc = "returned"
    /\ result.op = "stop"
    /\ \A r \in Routes : NoRecord(r)
    /\ \E pid \in Pids : os_procs[pid].st = "alive"

\* C16: stop_process sends SIGKILL only to the process it is stopping, only
\* after it has sent SIGTERM to it, and only when the grace-period wait ended
\* with the process still alive; when the wait finds the process exited, no
\* signal is sent.
C16_KillOnlyAfterTermAndGrace ==
    [][/\ \A pid \in Pids :
             (os_procs'[pid].sig = "KILL" /\ os_procs[pid].sig # "KILL") =>
                 /\ pc = "st_wait"
                 /\ pid = processes[cur]
                 /\ os_procs[pid].sig = "TERM"
                 /\ os_procs[pid].st = "alive"
       /\ (pc = "st_wait" /\ pc' # pc /\ os_procs[processes[cur]].st = "exited") =>
             os_procs' = os_procs]_vars

C16_Witness ==
    /\ pc = "st_wait_kill"
    /\ os_procs[processes[cur]].st = "alive"
    /\ os_procs[processes[cur]].sig = "KILL"

InStopProcess == pc \in {"st_begin", "st_wait", "st_wait_kill"}

\* C17: restart_process begins start_process only as its stop_process ends,
\* with the route's record removed, and never goes back to stopping; a record
\* is only ever made for the process just spawned, stamped with the time of
\* the spawn; a restart that succeeds leaves the route with the process
\* spawned last, alive, on the descriptor's port. Start after stop succeeds
\* when the port is free and the backend stays alive: without a record and
\* with the port free start_process goes to the spawn, and a backend found
\* alive by both tests of a polling iteration ends the call normally.
C17_RestartStopsThenStarts ==
    [][mgr = "ready" =>
         /\ (op' = "restart_process" /\ pc' = "sp_check" /\ pc # "sp_check") =>
               /\ op = "restart_process"
               /\ InStopProcess
               /\ processes'[cur'] = NoProc
               /\ start_times'[cur'] = NoTime
         /\ (op = "restart_process" /\ InStartProcess) =>
               /\ ~InStopProcess'
               /\ cur' = cur \/ pc' = "idle"
         /\ \A r \in Routes :
               (processes'[r] # NoProc /\ processes'[r] # processes[r]) =>
                   /\ processes'[r] = next_pid
                   /\ next_pid' = next_pid + 1
                   /\ start_times'[r] = next_pid
                   /\ os_procs'[next_pid].port = script_configs[r].port
         /\ (op = "restart_process" /\ SpEnds("ok")) =>
               /\ processes'[cur] = next_pid - 1
               /\ start_times'[cur] = next_pid - 1
               /\ os_procs[processes'[cur]].st = "alive"
               /\ os_procs[processes'[cur]].port = script_configs'[cur].port
         /\ (/\ pc = "sp_check"
             /\ pc' # pc
             /\ processes[cur] = NoProc
             /\ ~Occupied(script_configs[cur].port)) =>
               \/ pc' = "sp_poll" /\ processes'[cur] = next_pid
               \/ NothingSpawned /\ (SpEnds("OSError") \/ SpEnds("TTYDStartupError"))
         /\ (/\ pc = "sp_poll"
             /\ pc' # pc
             /\ os_procs[processes[cur]].st = "alive") => pc' = "sp_running"
         /\ (/\ pc = "sp_running"
             /\ pc' # pc
             /\ os_procs[processes[cur]].st = "alive") => SpEnds("ok")]_vars

\* A restart of a started route has succeeded: the first process is gone,
\* the route holds the second, on the same port.
C17_Witness ==
    /\ pc = "returned"
    /\ result.op = "restart_process"
    /\ result.outcome = "ok"
    /\ Len(script_configs) = 1
    /\ next_pid = 3
    /\ processes[result.route] = 2
    /\ start_times[result.route] = 2
    /\ os_procs[1].st = "exited"
    /\ os_procs[2].st = "alive"
    /\ os_procs[1].port = os_procs[2].port

-----------------------------------------------------------------------------
(* check_health *)

\* C18: a check_health snapshot has one entry per descriptor, in table order,
\* each with the descriptor's path and port, and in every entry pid and
\* uptime are present exactly when the status is "running".
C18_HealthEntriesConsistent ==
    (pc = "returned" /\ result.op = "check_health") =>
        /\ Len(health[1].processes) = Len(script_configs)
        /\ \A r \in Routes :
              LET e == health[1].processes[r] IN
                /\ e.route_path = script_configs[r].route_path
                /\ e.port = script_configs[r].port
                /\ e.status \in {"running", "stopped"}
                /\ (e.pid # NoProc) <=> (e.status = "running")
                /\ e.uptime <=> (e.status = "running")

-----------------------------------------------------------------------------
(* The application lifespan: terminaide_lifespan (core/app_config.py) and    *)
(* TTYDManager.lifespan (core/manager.py)                                     *)

LifespanKinds == {"terminaide_lifespan", "TTYDManager.lifespan"}

InLifespan(phase) == lifespan.phase = phase

\* ProxyManager(config) in configure_app: the proxy exists and may hold
\* proxied connections.
proxy_created == "open"

\* ProxyManager.cleanup(): the still-open proxied connections are closed.
proxy_cleanup == "closed"

\* Mutant: the clean-up runs only when serving ended without an exception.
cleanup_on_normal_exit_only(error) == ~error

\* try: yield / finally: the clean-up runs however the body ended.
finally_runs(error) == TRUE

\* configure_app(app, config) makes the TTYDManager and the ProxyManager; the
\* manager whose own lifespan is used has been made by its owner.
LsConfigure(kind) ==
    /\ lifespan = NoLifespan
    /\ Construct
    /\ lifespan' = [kind |-> kind, phase |-> "configured", error |-> FALSE]
    /\ proxy_manager' = IF kind = "terminaide_lifespan" THEN proxy_created
                        ELSE proxy_manager

\* ttyd_manager.start() / self.start(), before the yield.
LsStart ==
    /\ InLifespan("configured")
    /\ StartCall
    /\ lifespan' = [lifespan EXCEPT !.phase = "start"]
    /\ UNCHANGED proxy_manager

\* start() is over. It has returned: the lifespan yields and the app serves.
\* It has raised (an empty table): terminaide_lifespan, whose call is outside
\* the try, is left at once; TTYDManager.lifespan goes to its finally.
LsYield ==
    /\ InLifespan("start")
    /\ pc = "returned"
    /\ Return
    /\ lifespan' = [lifespan EXCEPT
                       !.phase = IF result.outcome = "ok" THEN "serving"
                                 ELSE IF lifespan.kind = "terminaide_lifespan"
                                 THEN "exited"
                                 ELSE "start_raised",
                       !.error = result.outcome # "ok"]
    /\ UNCHANGED proxy_manager

\* The health route asks the manager while the app serves.
LsHealth ==
    /\ InLifespan("serving")
    /\ HealthCall
    /\ UNCHANGED lvars

LsHealthReturn ==
    /\ InLifespan("serving")
    /\ pc = "returned"
    /\ Return
    /\ UNCHANGED lvars

\* The body of the lifespan ends, by shutdown or by an exception thrown in at
\* the yield; the finally clause calls stop().
LsServeEnds(error) ==
    /\ lifespan.phase \in {"serving", "start_raised"}
    /\ InLifespan("start_raised") => error
    /\ IF finally_runs(error)
       THEN /\ StopCall
            /\ lifespan' = [lifespan EXCEPT !.phase = "finally", !.error = error]
       ELSE /\ pc = "idle"
            /\ lifespan' = [lifespan EXCEPT !.phase = "exited", !.error = error]
            /\ UNCHANGED <<tvars, script_configs, avars, given_ports>>
            /\ UNCHANGED <<debug, pvars, osvars, ctl, loopvars, hist>>
    /\ UNCHANGED proxy_manager

\* stop() has returned; terminaide_lifespan then awaits
\* proxy_manager.cleanup(), and the lifespan is left.
LsCleanup ==
    /\ InLifespan("finally")
    /\ pc = "returned"
    /\ Return
    /\ lifespan' = [lifespan EXCEPT !.phase = "exited"]
    /\ proxy_manager' = IF lifespan.kind = "terminaide_lifespan" THEN proxy_cleanup
                        ELSE proxy_manager

NextLife ==
    \/ \E kind \in LifespanKinds : LsConfigure(kind) /\ UNCHANGED xvars
    \/ LsStart /\ UNCHANGED xvars
    \/ LsYield /\ UNCHANGED xvars
    \/ LsHealth /\ UNCHANGED xvars
    \/ LsHealthReturn /\ UNCHANGED xvars
    \/ \E error \in BOOLEAN : LsServeEnds(error) /\ UNCHANGED xvars
    \/ LsCleanup /\ UNCHANGED xvars
    \/ StartLoop /\ UNCHANGED <<lvars, xvars>>
    \/ SpCheck /\ UNCHANGED <<lvars, xvars>>
    \/ SpRecheck /\ UNCHANGED <<lvars, xvars>>
    \/ SpPoll /\ UNCHANGED <<lvars, xvars>>
    \/ SpRunning /\ UNCHANGED <<lvars, xvars>>
    \/ StBegin /\ UNCHANGED <<lvars, xvars>>
    \/ StWait /\ UNCHANGED <<lvars, xvars>>
    \/ StWaitKill /\ UNCHANGED <<lvars, xvars>>
    \/ \E pid \in Pids : BackendExit(pid) /\ UNCHANGED <<lvars, xvars>>
    \/ \E pid \in Pids : BackendListen(pid) /\ UNCHANGED <<lvars, xvars>>

SpecLife == Init /\ [][NextLife]_vars

-----------------------------------------------------------------------------
(* Lifespan claims *)

\* C19: on shutdown the proxy is cleaned up before the manager stops the
\* backends: whenever terminaide_lifespan has stop() or stop_process at work,
\* the proxy is already closed; and on startup the app serves only when
\* start() and every start_process call of it are over.
C19_ProxyClosedBeforeBackendsStop ==
    /\ (/\ lifespan.kind = "terminaide_lifespan"
        /\ op = "stop" \/ InStopProcess) => proxy_manager = "closed"
    /\ InLifespan("serving") => (op # "start" /\ ~InStartProcess)

\* C20: a lifespan whose start() returned is left, after a shutdown as after
\* an exception in serving, only as its stop() returns, and then no route
\* has a process record.
C20_StopOnLifespanExit ==
    [][(InLifespan("serving") \/ InLifespan("finally")) =>
         /\ (InLifespan("exited")' =>
                /\ InLifespan("finally")
                /\ pc = "returned"
                /\ result.op = "stop"
                /\ result.outcome = "ok"
                /\ \A r \in Routes : processes'[r] = NoProc)
         /\ (InLifespan("serving") /\ lifespan' # lifespan) =>
                InLifespan("finally")']_vars

\* The lifespan has been left after an exception in serving, with a backend
\* started and stopped in between.
C20_Witness ==
    /\ InLifespan("exited")
    /\ lifespan.error
    /\ next_pid > 1
    /\ \E pid \in Pids : os_procs[pid].st = "exited"
    /\ \A r \in Routes : NoRecord(r)


-----------------------------------------------------------------------------
(* TTYDManager.restart_process called from two threads.                    *)
(* The manager holds no lock: each statement of stop_process and           *)
(* start_process reads and writes self.processes and self.start_times      *)
(* directly, and the variable process of either method is local to the     *)
(* call. A step of a thread is one run of statements between two places    *)
(* where the method sleeps, waits, signals or spawns.                      *)

\* The frame of a thread step: the table, the allocation, the single-threaded
\* caller and the lifespan are not touched.
thread_frame == <<tvars, script_configs, base_port, mgr, given_ports, debug,
                  ctl, loopvars, hist, lvars, cfgvars, cmdvars, rlvars, pxvars>>

ThreadAt(t, place) == threads[t].pc = place

ThreadGoes(t, place) == threads' = [threads EXCEPT ![t].pc = place]

\* The call of thread t ends with outcome o.
ThreadEnds(t, o) ==
    threads' = [threads EXCEPT ![t].pc = "done", ![t].outcome = o]

ThreadPop(t) ==
    /\ processes' = popped(processes, threads[t].route, NoProc)
    /\ start_times' = popped(start_times, threads[t].route, NoTime)

\* Lines 380-393 and 290-305: the descriptor is looked up, stop_process reads
\* the record into its local variable and signals the process group.
ThRestart(t, route) ==
    /\ ThreadAt(t, "idle")
    /\ mgr = "ready"
    /\ Idle
    /\ route \in Routes
    /\ IF processes[route] = NoProc
       THEN /\ threads' = [threads EXCEPT ![t].pc = "sp_check", ![t].route = route]
            /\ UNCHANGED <<pvars, osvars>>
       ELSE \E how \in SignalOutcomes :
               IF how = "error"
               THEN /\ processes' = popped(processes, route, NoProc)
                    /\ start_times' = popped(start_times, route, NoTime)
                    /\ threads' = [threads EXCEPT ![t].pc = "sp_check",
                                                  ![t].route = route]
                    /\ UNCHANGED osvars
               ELSE /\ os_procs' = IF has_exited(processes[route]) THEN os_procs
                                   ELSE [os_procs EXCEPT ![processes[route]].sig = "TERM"]
                    /\ threads' = [threads EXCEPT ![t].pc = "st_wait",
                                                  ![t].route = route,
                                                  ![t].process = processes[route]]
                    /\ UNCHANGED <<pvars, next_pid>>
    /\ UNCHANGED <<thread_frame, foreign>>

\* Lines 307-326: the wait on the local process, SIGKILL after the timeout,
\* and the two pops, which drop whatever record the route holds by then.
ThStWait(t) ==
    /\ ThreadAt(t, "st_wait")
    /\ IF wait_returns(threads[t].process)
       THEN /\ ThreadPop(t)
            /\ ThreadGoes(t, "sp_check")
            /\ UNCHANGED osvars
       ELSE \E how \in SignalOutcomes :
               IF how = "error"
               THEN /\ ThreadPop(t)
                    /\ ThreadGoes(t, "sp_check")
                    /\ os_procs' = signals_over(threads[t].process)
                    /\ UNCHANGED next_pid
               ELSE /\ os_procs' = [os_procs EXCEPT ![threads[t].process].sig = "KILL"]
                    /\ ThreadGoes(t, "st_wait_kill")
                    /\ UNCHANGED <<pvars, next_pid>>
    /\ UNCHANGED <<thread_frame, foreign>>

ThStWaitKill(t) ==
    /\ ThreadAt(t, "st_wait_kill")
    /\ ThreadPop(t)
    /\ ThreadGoes(t, "sp_check")
    /\ os_procs' = signals_over(threads[t].process)
    /\ UNCHANGED <<thread_frame, foreign, next_pid>>

\* Lines 229-236: Popen and the two assignments; the new process is the local
\* variable of this call and the record of the route.
ThSpawn(t, how) ==
    IF how = "ok"
    THEN /\ next_pid <= MaxSpawns
         /\ os_procs' = Append(os_procs,
                               [st |-> "alive",
                                port |-> script_configs[threads[t].route].port,
                                bound |-> FALSE, sig |-> "none"])
         /\ next_pid' = next_pid + 1
         /\ processes' = [processes EXCEPT ![threads[t].route] = next_pid]
         /\ start_times' = [start_times EXCEPT ![threads[t].route] = next_pid]
         /\ threads' = [threads EXCEPT ![t].pc = "sp_poll",
                                       ![t].process = next_pid,
                                       ![t].checks_done = 0]
    ELSE /\ ThreadEnds(t, IF how = "OSError" THEN "OSError" ELSE "TTYDStartupError")
         /\ UNCHANGED <<pvars, osvars>>

\* Lines 208-236 in thread t.
ThSpCheck(t) ==
    /\ ThreadAt(t, "sp_check")
    /\ IF already_running(threads[t].route)
       THEN /\ ThreadEnds(t, "TTYDProcessError")
            /\ UNCHANGED <<pvars, osvars, foreign>>
       ELSE IF is_port_in_use(script_configs[threads[t].route].port)
       THEN \E how \in KillOutcomes :
               /\ os_procs' = killed_procs(script_configs[threads[t].route].port, how)
               /\ foreign' = killed_foreign(script_configs[threads[t].route].port, how)
               /\ ThreadGoes(t, "sp_recheck")
               /\ UNCHANGED <<pvars, next_pid>>
       ELSE /\ \E how \in SpawnOutcomes : ThSpawn(t, how)
            /\ UNCHANGED foreign
    /\ UNCHANGED thread_frame

\* Lines 217-236 in thread t.
ThSpRecheck(t) ==
    /\ ThreadAt(t, "sp_recheck")
    /\ IF is_port_in_use(script_configs[threads[t].route].port)
       THEN /\ ThreadEnds(t, "TTYDStartupError")
            /\ UNCHANGED <<pvars, osvars>>
       ELSE \E how \in SpawnOutcomes : ThSpawn(t, how)
    /\ UNCHANGED <<thread_frame, foreign>>

\* Lines 243-248 in thread t: process.poll() is on the local process, the
\* pops are on the route.
ThSpPoll(t) ==
    /\ ThreadAt(t, "sp_poll")
    /\ IF has_exited(threads[t].process)
       THEN /\ ThreadPop(t)
            /\ ThreadEnds(t, "TTYDStartupError")
       ELSE /\ ThreadGoes(t, "sp_running")
            /\ UNCHANGED pvars
    /\ UNCHANGED <<thread_frame, foreign, osvars>>

\* Lines 250-260 in thread t: is_process_running looks the route up again.
ThSpRunning(t) ==
    /\ ThreadAt(t, "sp_running")
    /\ IF is_process_running(threads[t].route)
       THEN /\ ThreadEnds(t, "ok")
            /\ UNCHANGED pvars
       ELSE IF threads[t].checks_done + 1 < checks
       THEN /\ threads' = [threads EXCEPT ![t].pc = "sp_poll",
                                          ![t].checks_done = @ + 1]
            /\ UNCHANGED pvars
       ELSE /\ ThreadPop(t)
            /\ ThreadEnds(t, "TTYDStartupError")
    /\ UNCHANGED <<thread_frame, foreign, osvars>>

NextThreads ==
    \/ Construct /\ UNCHANGED <<lvars, xvars>>
    \/ \E t \in Threads : \E route \in Routes : ThRestart(t, route)
    \/ \E t \in Threads : ThStWait(t)
    \/ \E t \in Threads : ThStWaitKill(t)
    \/ \E t \in Threads : ThSpCheck(t)
    \/ \E t \in Threads : ThSpRecheck(t)
    \/ \E t \in Threads : ThSpPoll(t)
    \/ \E t \in Threads : ThSpRunning(t)
    \/ \E pid \in Pids : BackendExit(pid) /\ UNCHANGED <<lvars, xvars>>
    \/ \E pid \in Pids : BackendListen(pid) /\ UNCHANGED <<lvars, xvars>>

SpecThreads == Init /\ [][NextThreads]_vars

\* The threads that are between the first statement of stop_process and the
\* end of start_process for the route.
InRestart(t, route) ==
    threads[t].route = route /\ threads[t].pc \notin {"idle", "done"}

\* Thread t is in the polling loop of start_process for the process it spawned.
PollsOwn(t) == threads[t].pc \in {"sp_poll", "sp_running"}

\* C21: concurrent restarts of one route are serialized: while a restart is
\* waiting for the backend it has just started, the record of the route is
\* that backend and the backend has not been signalled by another restart.
C21_RestartsSerialized ==
    \A t \in Threads :
        PollsOwn(t) =>
            /\ processes[threads[t].route] = threads[t].process
            /\ os_procs[threads[t].process].sig = "none"
            /\ \A u \in Threads \ {t} : ~InRestart(u, threads[t].route)


-----------------------------------------------------------------------------
(* Start-up on a machine where no port is taken *)

\* No listener other than the manager's own backends holds a port.
InitFreePorts == Init /\ foreign = {}

\* The manager is constructed, start() is called and the health is asked for;
\* nothing is stopped or restarted.
NextStartUp ==
    \/ Construct /\ UNCHANGED <<lvars, xvars>>
    \/ StartCall /\ UNCHANGED <<lvars, xvars>>
    \/ StartLoop /\ UNCHANGED <<lvars, xvars>>
    \/ SpCheck /\ UNCHANGED <<lvars, xvars>>
    \/ SpRecheck /\ UNCHANGED <<lvars, xvars>>
    \/ SpPoll /\ UNCHANGED <<lvars, xvars>>
    \/ SpRunning /\ UNCHANGED <<lvars, xvars>>
    \/ HealthCall /\ UNCHANGED <<lvars, xvars>>
    \/ Return /\ UNCHANGED <<lvars, xvars>>
    \/ \E pid \in Pids : BackendExit(pid) /\ UNCHANGED <<lvars, xvars>>
    \/ \E pid \in Pids : BackendListen(pid) /\ UNCHANGED <<lvars, xvars>>

SpecFreePorts == InitFreePorts /\ [][NextStartUp]_vars

\* start() has returned, one backend was spawned per descriptor and every
\* backend spawned so far is alive.
StartedAllAlive ==
    /\ pc = "returned"
    /\ result.op = "start"
    /\ Len(os_procs) = Len(script_configs)
    /\ \A pid \in Pids : os_procs[pid].st = "alive"

\* The routes whose port was assigned by _allocate_ports.
AllocatedRoutes == {r \in Routes : given_ports[r] = NoPort}

\* C22: with every port from the base port upward free and every spawned
\* backend alive, after construction and startAll the health report has every
\* descriptor running, on pairwise distinct ports, all at or above the base
\* port, the allocated ones increasing with the table position.
C22_AllRunningOnDistinctPorts ==
    StartedAllAlive =>
        LET report == check_health.processes IN
        /\ \A r \in Routes : report[r].status = "running"
        /\ \A r, q \in Routes : r # q => report[r].port # report[q].port
        /\ \A r \in Routes : report[r].port >= base_port
        /\ \A r, q \in AllocatedRoutes : r < q => report[r].port < report[q].port


-----------------------------------------------------------------------------
(* The default descriptor *)

\* C23: a table built without descriptors and with a default script holds
\* exactly one descriptor, with path '/', the default script, the base port
\* and the global title; a table built from a non-empty list holds the given
\* descriptors, in the given order, and no synthesized one.
C23_DefaultDescriptor ==
    build_status = "ok" =>
        /\ (raw_routes = << >> /\ client_script # NoScript) =>
              script_configs = <<[route_path |-> Slash,
                                  client_script |-> client_script,
                                  port |-> base_port,
                                  title |-> DefaultTitle]>>
        /\ raw_routes # << >> =>
              /\ Len(script_configs) = Len(raw_routes)
              /\ \A i \in 1..Len(raw_routes) :
                    script_configs[i] =
                        ScriptConfig(raw_routes[i], ScriptOf(i), NoPort, NoTitle)

C23_Witness ==
    /\ build_status = "ok"
    /\ raw_routes = << >>
    /\ client_script = DefaultScript
    /\ Len(script_configs) = 1


-----------------------------------------------------------------------------
(* The lifecycle of a route *)

\* The routes the constructed manager keeps a record slot for.
Recorded == DOMAIN processes

\* Route r is reported running in this state and not in the next.
LeavesRunning(r) == is_process_running(r) /\ ~is_process_running(r)'

\* This step is a step of stop_process on route r.
StopStepOn(r) == InStopProcess /\ cur = r

\* This step is a step of start_process on route r that removes the record of
\* the route: one of its two failure paths after the spawn.
FailingStartStepOn(r) == InStartProcess /\ cur = r /\ processes'[r] = NoProc

\* The backend recorded for route r is an exited process in the next state.
BackendGone(r) == os_procs'[processes[r]].st = "exited"

\* A backend is spawned in this step.
SpawnStep == next_pid' # next_pid

-----------------------------------------------------------------------------
(* TTYDManager._build_command *)

MaxArgs == 2

\* A command line is a sequence of tokens; a token is a sequence of parts, so
\* that str(port), "user:pass" and "theme=<json>" keep what they are made of.
Tok(text) == <<text>>

\* The values of an Optional[str] setting: None, the empty string, a name.
NoneStr == "None"
OptionalStrings(name) == {NoneStr, "", name}

\* Python truth of an Optional[str].
truthy(text) == text \notin {NoneStr, ""}

ArgWords == {"a", "b"}
ArgLists == UNION {[1..n -> ArgWords] : n \in 0..MaxArgs}

\* What _build_command reads besides the descriptor: self._ttyd_path,
\* self.config.ttyd_options, self.config.debug, the environment variable
\* TERMINAIDE_CURSOR_MGMT, whether cursor_manager.py exists, and the
\* descriptor's args.
CmdInputs ==
    [ttyd_path : {NoneStr, "ttyd"},
     check_origin : BOOLEAN,
     credential_required : BOOLEAN,
     username : OptionalStrings("user"),
     password : OptionalStrings("pass"),
     debug : BOOLEAN,
     writable : BOOLEAN,
     cursor_mgmt_enabled : BOOLEAN,
     cursor_manager_exists : BOOLEAN,
     args : ArgLists]

\* cmd.extend(items)
extend(cmd, items) == cmd \o items

\* Mutant: the terminal is always writable.
access_flag_always_writable(writable) == Tok("--writable")

\* Lines 126-129: '--writable' or '-R'.
access_flag(writable) == IF writable THEN Tok("--writable") ELSE Tok("-R")

\* Lines 131-146: the interpreter, cursor_manager.py when it is enabled and
\* exists, the script, and the descriptor's args.
python_cmd(d, script) ==
    extend(IF d.cursor_mgmt_enabled /\ d.cursor_manager_exists
           THEN <<Tok("sys.executable"), Tok("cursor_manager.py"), <<"str", script>>>>
           ELSE <<Tok("sys.executable"), <<"str", script>>>>,
           [i \in 1..Len(d.args) |-> Tok(d.args[i])])

\* _build_command(script_config), statement by statement.
build_command(d, script_config) ==
    IF ~truthy(d.ttyd_path)
    THEN [status |-> "TTYDStartupError", cmd |-> << >>]
    ELSE IF d.credential_required /\ ~(truthy(d.username) /\ truthy(d.password))
    THEN [status |-> "TTYDStartupError", cmd |-> << >>]
    ELSE
    LET c1 == <<Tok(d.ttyd_path)>>
        c2 == extend(c1, <<Tok("-p"), <<"str", script_config.port>>>>)
        c3 == extend(c2, <<Tok("-i"), Tok("interface")>>)
        c4 == IF ~d.check_origin THEN Append(c3, Tok("--no-check-origin")) ELSE c3
        c5 == IF d.credential_required
              THEN extend(c4, <<Tok("-c"), <<d.username, ":", d.password>>>>)
              ELSE c4
        c6 == IF d.debug THEN extend(c5, <<Tok("-d"), Tok("3")>>) ELSE c5
        c7 == extend(c6, <<Tok("-t"), <<"theme=", "theme_json">>>>)
        c8 == extend(c7, <<Tok("-t"), Tok("cursorInactiveStyle=none")>>)
        c9 == extend(c8, <<Tok("-t"), Tok("cursorWidth=0")>>)
        c10 == extend(c9, <<Tok("-t"), Tok("cursorBlink=True")>>)
        c11 == Append(c10, access_flag(d.writable))
    IN  [status |-> "ok",
         cmd |-> extend(c11, python_cmd(d, script_config.client_script))]

\* The call of _build_command for the first descriptor of the table; the model
\* follows one call per run.
BuildCommand ==
    /\ mgr = "ready"
    /\ cmd_out = NoCommand
    /\ \E d \in CmdInputs :
          /\ cmd_in' = d
          /\ cmd_out' = build_command(d, script_configs[1])
    /\ UNCHANGED <<tvars, script_configs, avars, given_ports>>
    /\ UNCHANGED <<debug, pvars, osvars, ctl, loopvars, hist, lvars, thvars, cfgvars,
                   rlvars, pxvars>>

NextCmd ==
    \/ Construct /\ UNCHANGED <<lvars, xvars>>
    \/ BuildCommand

SpecCmd == Init /\ [][NextCmd]_vars

\* The tokens of cmd from position i on.
From(cmd, i) == SubSeq(cmd, i, Len(cmd))

\* seq starts with the tokens of head.
StartsWith(seq, head) ==
    Len(seq) >= Len(head) /\ SubSeq(seq, 1, Len(head)) = head

\* An optional group of the command line at the head of rest: present exactly
\* when on holds.
Group(on, tokens) == IF on THEN tokens ELSE << >>

\* The command line of the claim, group after group.
ClaimedCommand(d, script_config) ==
    <<Tok(d.ttyd_path), Tok("-p"), <<"str", script_config.port>>,
      Tok("-i"), Tok("interface")>>
    \o Group(~d.check_origin, <<Tok("--no-check-origin")>>)
    \o Group(d.credential_required, <<Tok("-c"), <<d.username, ":", d.password>>>>)
    \o Group(d.debug, <<Tok("-d"), Tok("3")>>)
    \o <<Tok("-t"), <<"theme=", "theme_json">>,
         Tok("-t"), Tok("cursorInactiveStyle=none"),
         Tok("-t"), Tok("cursorWidth=0"),
         Tok("-t"), Tok("cursorBlink=True")>>
    \o Group(d.writable, <<Tok("--writable")>>)
    \o Group(~d.writable, <<Tok("-R")>>)

\* C25: a command line that _build_command returns is the binary, '-p' port,
\* '-i' interface, '--no-check-origin' iff origin checking is off, '-c
\* user:pass' iff credentials are required, '-d' level iff debug is on, the
\* four '-t' options, one of '--writable' and '-R', and then the launch
\* command, which ends with the script followed by the descriptor's args in
\* their order.
C25_CommandLineOrder ==
    cmd_out.status = "ok" =>
        LET head == ClaimedCommand(cmd_in, script_configs[1])
            launch == From(cmd_out.cmd, Len(head) + 1)
            n == Len(cmd_in.args)
        IN  /\ StartsWith(cmd_out.cmd, head)
            /\ launch[1] = Tok("sys.executable")
            /\ Len(launch) >= n + 2
            /\ launch[Len(launch) - n] = <<"str", script_configs[1].client_script>>
            /\ \A i \in 1..n : launch[Len(launch) - n + i] = Tok(cmd_in.args[i])
            /\ \A i \in 1..Len(launch) : launch[i] \notin {Tok("--writable"), Tok("-R")}

C25_Witness ==
    /\ cmd_out.status = "ok"
    /\ cmd_in.credential_required
    /\ ~cmd_in.check_origin
    /\ cmd_in.debug
    /\ ~cmd_in.writable
    /\ Len(cmd_in.args) = MaxArgs


-----------------------------------------------------------------------------
(* Serving one script or function, directly and under uvicorn's reload *)

AppPort == 8000
DefaultTheme == [background |-> "black", foreground |-> "white"]

\* The TerminaideConfig objects served: every field the two paths read, each
\* at its default and at one other value. A function target can or cannot be
\* imported again by the reloaded process.
ServeConfigs ==
    [port : {AppPort, AppPort + 1},
     title : {DefaultTitle, "Demo"},
     theme : {DefaultTheme, [background |-> "navy", foreground |-> "white"]},
     debug : BOOLEAN,
     forward_env : BOOLEAN,
     writable : BOOLEAN,
     mount_path : {DefaultMountPath, <<"/", "a">>},
     ttyd_port : {TableBasePort, TableBasePort + 1},
     mode : {"script", "function"},
     importable : BOOLEAN]

\* str(x) of a number, bool or dict, and what int() and ast.literal_eval()
\* make of such a string.
str(x) == <<"str", x>>
parse(text) == text[2]

\* "1" if config.debug else "0", and os.environ.get("TERMINAIDE_DEBUG") == "1"
debug_flag(on) == IF on THEN "1" ELSE "0"

\* generate_function_wrapper(func): the ephemeral script of a function.
ephemeral_path(name) == <<"terminaide_ephemeral", name, ".py">>

\* The script a configuration is served from: the script itself, or the
\* ephemeral wrapper of the function.
target_path(c) ==
    IF c.mode = "function" THEN ephemeral_path("func") ELSE <<"script", 1>>

\* create_script_configs({"/": script_path})
create_script_configs(script_path) == <<ScriptConfig(Slash, script_path, NoPort, NoTitle)>>

\* convert_terminaide_config_to_ttyd_config(config, script_path)
convert_terminaide_config_to_ttyd_config(c, script_path) ==
    LET cfgs == create_script_configs(script_path)
        titled == IF c.title # DefaultTitle
                  THEN [cfgs EXCEPT ![1].title = c.title]
                  ELSE cfgs
    IN  [client_script |-> titled[1].client_script,
         mount_path |-> c.mount_path,
         port |-> c.ttyd_port,
         theme |-> c.theme,
         ttyd_options |-> [writable |-> c.writable],
         title |-> c.title,
         debug |-> c.debug,
         script_configs |-> titled,
         forward_env |-> c.forward_env,
         mode |-> c.mode]

\* The environment variables serve_script and serve_function set under
\* reload; the two differ in how the target is named.
snapshot(c) ==
    [TERMINAIDE_TARGET |-> IF c.mode = "function"
                           THEN <<"func", c.importable>>
                           ELSE <<"script", 1>>,
     TERMINAIDE_PORT |-> str(c.port),
     TERMINAIDE_TITLE |-> c.title,
     TERMINAIDE_DEBUG |-> debug_flag(c.debug),
     TERMINAIDE_THEME |-> str(c.theme),
     TERMINAIDE_FORWARD_ENV |-> str(c.forward_env),
     TERMINAIDE_MODE |-> c.mode]

\* The script the factory serves: Path(TERMINAIDE_SCRIPT_PATH), or in
\* function mode the wrapper of the function imported again, or the
\* cannot-reload script.
rebuilt_target(environ) ==
    IF environ.TERMINAIDE_MODE = "function"
    THEN IF environ.TERMINAIDE_TARGET[2]
         THEN ephemeral_path(environ.TERMINAIDE_TARGET[1])
         ELSE <<"terminaide_ephemeral", environ.TERMINAIDE_TARGET[1],
                "_cannot_reload.py">>
    ELSE environ.TERMINAIDE_TARGET

\* TerminaideConfig(port=int(port_str), title=title, theme=theme, debug=debug,
\* forward_env=forward_env) in either factory: the fields not named keep the
\* defaults of the dataclass.
rebuilt_config(environ) ==
    [port |-> parse(environ.TERMINAIDE_PORT),
     title |-> environ.TERMINAIDE_TITLE,
     theme |-> parse(environ.TERMINAIDE_THEME),
     debug |-> environ.TERMINAIDE_DEBUG = "1",
     forward_env |-> parse(environ.TERMINAIDE_FORWARD_ENV),
     writable |-> TRUE,
     mount_path |-> DefaultMountPath,
     ttyd_port |-> TableBasePort,
     mode |-> environ.TERMINAIDE_MODE]

\* script_app_factory / function_app_factory
app_factory(environ) ==
    convert_terminaide_config_to_ttyd_config(rebuilt_config(environ),
                                             rebuilt_target(environ))

\* serve_script with reload off (serve_function with reload off ends in it).
ServeDirect ==
    /\ serve.phase = "none"
    /\ \E c \in ServeConfigs :
          serve' = [serve EXCEPT
                       !.phase = "direct",
                       !.config = c,
                       !.direct = convert_terminaide_config_to_ttyd_config(
                                      c, target_path(c))]

\* serve_script / serve_function with reload on, for the same configuration.
ServeReload ==
    /\ serve.phase = "direct"
    /\ serve' = [serve EXCEPT !.phase = "snapshot",
                              !.environ = snapshot(serve.config)]

\* uvicorn calls the factory in the reloaded process.
AppFactory ==
    /\ serve.phase = "snapshot"
    /\ serve' = [serve EXCEPT !.phase = "rebuilt",
                              !.rebuilt = app_factory(serve.environ)]

serve_frame == <<tvars, script_configs, avars, given_ports, debug, pvars, osvars,
                 ctl, loopvars, hist, lvars, thvars, cfgvars, cmdvars, pxvars>>

NextServe ==
    \/ ServeDirect /\ UNCHANGED serve_frame
    \/ ServeReload /\ UNCHANGED serve_frame
    \/ AppFactory /\ UNCHANGED serve_frame

\* The manager and its table play no part: one table, nothing started.
InitServe == InitFreePorts /\ Len(script_configs) = 1

SpecServe == InitServe /\ [][NextServe]_vars

\* C26: the TTYDConfig (route table and supervisor settings) the factory
\* rebuilds from the environment snapshot equals the one the direct path
\* builds from the same TerminaideConfig.
C26_ReloadRoundTrip ==
    serve.phase = "rebuilt" => serve.rebuilt = serve.direct


-----------------------------------------------------------------------------
(* ProxyManager: one WebSocket session and one HTTP request.               *)
(* The routes registered by configure_routes hand every WebSocket to       *)
(* proxy_manager.proxy_websocket and every other request under the         *)
(* terminal path to proxy_manager.proxy_http; ProxyManager itself is       *)
(* described by section 4.3 of the specification.                          *)

MaxFrames == 2

\* The backends of the two routes, named after the request that uses them.
ProxyBackends == {"ws", "http"}

\* ProxyManager(config) in configure_app.
ProxyCreate ==
    /\ proxy_manager = "none"
    /\ proxy_manager' = proxy_created
    /\ UNCHANGED pxvars

\* A backend starts or stops accepting connections (started, crashed, being
\* restarted).
BackendUp(b) ==
    /\ b \notin reachable
    /\ reachable' = reachable \cup {b}
    /\ UNCHANGED <<ws, http, proxy_manager>>

BackendDown(b) ==
    /\ b \in reachable
    /\ reachable' = reachable \ {b}
    /\ UNCHANGED <<ws, http, proxy_manager>>

\* terminal_ws: a client opens the WebSocket of the route and the handler
\* awaits proxy_manager.proxy_websocket(websocket, route_path=route_path).
WsOpen ==
    /\ proxy_manager = "open"
    /\ ws.st = "idle"
    /\ ws' = [ws EXCEPT !.st = "connecting", !.client = "open"]
    /\ UNCHANGED <<http, reachable, proxy_manager>>

\* Mutant: the failed session is ended without closing the client's socket.
connect_failed_half_open(w) == [w EXCEPT !.code = "error", !.st = "done"]

\* The backend cannot be reached: the client's socket is closed with an error
\* code and the session is over.
connect_failed(w) ==
    [w EXCEPT !.client = "closed", !.code = "error", !.st = "done"]

\* proxy_websocket resolves the backend and opens the upgrade connection.
WsConnect ==
    /\ ws.st = "connecting"
    /\ ws' = IF "ws" \in reachable
             THEN [ws EXCEPT !.st = "relaying", !.backend = "open"]
             ELSE connect_failed(ws)
    /\ UNCHANGED <<http, reachable, proxy_manager>>

\* A leg delivers a frame to the proxy; frames are numbered as they arrive.
ClientFrame ==
    /\ ws.st = "relaying"
    /\ ws.client = "open"
    /\ ws.up_sent < MaxFrames
    /\ ws' = [ws EXCEPT !.up_sent = @ + 1,
                        !.up_queue = Append(@, ws.up_sent + 1)]
    /\ UNCHANGED <<http, reachable, proxy_manager>>

BackendFrame ==
    /\ ws.st = "relaying"
    /\ ws.backend = "open"
    /\ ws.down_sent < MaxFrames
    /\ ws' = [ws EXCEPT !.down_sent = @ + 1,
                        !.down_queue = Append(@, ws.down_sent + 1)]
    /\ UNCHANGED <<http, reachable, proxy_manager>>

\* Mutant: the frame received last is relayed first.
next_frame_newest(queue) == queue[Len(queue)]

\* The frame one relay step forwards: the one received first.
next_frame(queue) == Head(queue)

\* One frame goes from the client to the backend, or the other way.
RelayUp ==
    /\ ws.st = "relaying"
    /\ ws.backend = "open"
    /\ ws.up_queue # << >>
    /\ ws' = [ws EXCEPT !.up_relayed = Append(@, next_frame(ws.up_queue)),
                        !.up_queue = Tail(@)]
    /\ UNCHANGED <<http, reachable, proxy_manager>>

RelayDown ==
    /\ ws.st = "relaying"
    /\ ws.client = "open"
    /\ ws.down_queue # << >>
    /\ ws' = [ws EXCEPT !.down_relayed = Append(@, next_frame(ws.down_queue)),
                        !.down_queue = Tail(@)]
    /\ UNCHANGED <<http, reachable, proxy_manager>>

\* A leg closes or fails: the client goes away, the backend closes or dies.
ClientCloses ==
    /\ ws.client = "open"
    /\ ws' = [ws EXCEPT !.client = "closed"]
    /\ UNCHANGED <<http, reachable, proxy_manager>>

BackendCloses ==
    /\ ws.backend = "open"
    /\ ws' = [ws EXCEPT !.backend = "closed"]
    /\ UNCHANGED <<http, reachable, proxy_manager>>

\* The relay finds one leg closed and closes the other.
WsCloseOther ==
    /\ ws.st = "relaying"
    /\ ws.client = "closed" \/ ws.backend = "closed"
    /\ ws' = [ws EXCEPT !.client = "closed", !.backend = "closed",
                        !.code = "closed", !.st = "done"]
    /\ UNCHANGED <<http, reachable, proxy_manager>>

\* proxy_terminal_request: a request under the terminal path arrives and the
\* handler awaits proxy_manager.proxy_http(request).
HttpRequest ==
    /\ proxy_manager = "open"
    /\ http.st = "idle"
    /\ http' = [http EXCEPT !.st = "pending"]
    /\ UNCHANGED <<ws, reachable, proxy_manager>>

\* What proxy_http answers: the backend's response, or a gateway error.
forwarded(up) == IF up THEN "backend_response" ELSE "gateway_error"

HttpForward ==
    /\ http.st = "pending"
    /\ http' = [http EXCEPT !.st = "done",
                            !.response = forwarded("http" \in reachable)]
    /\ UNCHANGED <<ws, reachable, proxy_manager>>

proxy_frame == <<tvars, script_configs, avars, given_ports, debug, pvars, osvars,
                 ctl, loopvars, hist, lifespan, thvars, cfgvars, cmdvars, rlvars>>

NextProxy ==
    \/ ProxyCreate /\ UNCHANGED proxy_frame
    \/ \E b \in ProxyBackends : BackendUp(b) /\ UNCHANGED proxy_frame
    \/ \E b \in ProxyBackends : BackendDown(b) /\ UNCHANGED proxy_frame
    \/ WsOpen /\ UNCHANGED proxy_frame
    \/ WsConnect /\ UNCHANGED proxy_frame
    \/ ClientFrame /\ UNCHANGED proxy_frame
    \/ BackendFrame /\ UNCHANGED proxy_frame
    \/ RelayUp /\ UNCHANGED proxy_frame
    \/ RelayDown /\ UNCHANGED proxy_frame
    \/ ClientCloses /\ UNCHANGED proxy_frame
    \/ BackendCloses /\ UNCHANGED proxy_frame
    \/ WsCloseOther /\ UNCHANGED proxy_frame
    \/ HttpRequest /\ UNCHANGED proxy_frame
    \/ HttpForward /\ UNCHANGED proxy_frame

\* The event loop resumes a handler whose awaited connection attempt, read or
\* close has completed; clients and backends are under no obligation.
ProxyFairness ==
    /\ WF_vars(WsConnect /\ UNCHANGED proxy_frame)
    /\ WF_vars(WsCloseOther /\ UNCHANGED proxy_frame)
    /\ WF_vars(HttpForward /\ UNCHANGED proxy_frame)

SpecProxy == InitServe /\ [][NextProxy]_vars /\ ProxyFairness

\* The frames of one direction, received so far, in the order received.
Received(n) == [i \in 1..n |-> i]

FramesInOrder ==
    /\ ws.up_relayed \o ws.up_queue = Received(ws.up_sent)
    /\ ws.down_relayed \o ws.down_queue = Received(ws.down_sent)

OneFrameAtATime ==
    /\ Len(ws'.up_relayed) <= Len(ws.up_relayed) + 1
    /\ Len(ws'.down_relayed) <= Len(ws.down_relayed) + 1

LegClosed == ws.client = "closed" \/ ws.backend = "closed"

SessionOver == ws.st = "done" /\ ws.client = "closed" /\ ws.backend # "open"

\* C27: in a proxied WebSocket session a close or error on either leg leads
\* to the other leg being closed and the session being over; until then the
\* frames of each direction are relayed one per step, in the order received,
\* none lost and none repeated.
C27_WsLegsCloseTogether ==
    /\ []FramesInOrder
    /\ [][OneFrameAtATime]_vars
    /\ LegClosed ~> SessionOver

C27_Witness ==
    /\ ws.st = "done"
    /\ ws.code = "closed"
    /\ ws.up_relayed = Received(MaxFrames)
    /\ Len(ws.down_relayed) > 0

\* The WebSocket session ends in this step because its backend is unreachable.
WsConnectFails == ws.st = "connecting" /\ ws'.st = "done"

\* The HTTP request is answered in this step with its backend unreachable.
HttpFails == http.st = "pending" /\ http'.st = "done" /\ "http" \notin reachable

\* C28: a proxied request whose backend is unreachable ends with an error
\* outcome: the WebSocket is closed with an error code, no leg left open,
\* the HTTP request gets a gateway error; neither waits for ever, and the
\* failure touches neither the other request nor the proxy.
C28_UnreachableBackendFailsRequest ==
    /\ [][WsConnectFails =>
              /\ ws'.code = "error"
              /\ ws'.client = "closed"
              /\ ws'.backend = "none"
              /\ http' = http
              /\ proxy_manager' = proxy_manager]_vars
    /\ [][HttpFails =>
              /\ http'.response = "gateway_error"
              /\ ws' = ws
              /\ proxy_manager' = proxy_manager]_vars
    /\ (ws.st = "connecting") ~> (ws.st # "connecting")
    /\ (http.st = "pending") ~> (http.st = "done" /\ http.response # "none")

C28_Witness ==
    /\ ws.st = "done"
    /\ ws.code = "error"
    /\ http.st = "done"
    /\ http.response = "backend_response"
    /\ proxy_manager = "open"


-----------------------------------------------------------------------------
(* Error reporting of start_process and of the allocation *)

\* How start_process may end according to the taxonomy.
StartOutcomes == {"ok", "TTYDProcessError", "TTYDStartupError"}

\* C29: start_process ends normally, with TTYDProcessError or with
\* TTYDStartupError, whether called directly, by restart_process or by
\* start(); nothing else leaves it.
C29_StartErrorsInTaxonomy ==
    /\ (pc = "returned" /\ result.op \in {"start_process", "restart_process"}) =>
           result.outcome \in StartOutcomes
    /\ \A i \in 1..Len(outcomes) : outcomes[i] \in StartOutcomes

\* C30: after an allocation that failed with PortAllocationError, every
\* descriptor that had no port before still has none.
C30_FailedAllocationLeavesTable ==
    mgr = "PortAllocationError" =>
        \A i \in 1..Len(script_configs) :
            given_ports[i] = NoPort => script_configs[i].port = NoPort


-----------------------------------------------------------------------------
(* Resolution and path segments *)

\* path is the descriptor's path or continues it with '/'.
OnSegmentBoundary(d, path) ==
    path = d.route_path \/ startswith(path, d.route_path \o Slash)

\* C31: in a table of two or more descriptors, a request path that some
\* descriptor matches is resolved to a non-root descriptor only if it equals
\* the descriptor's path or continues with '/' right after it.
C31_MatchOnSegmentBoundary ==
    (/\ resolve_calls > 0
     /\ Len(script_configs) >= 2
     /\ \E d \in TableSet : path_matches(d, req_path)
     /\ Len(resolved) = 1
     /\ resolved[1].route_path # Slash) =>
        OnSegmentBoundary(resolved[1], req_path)


-----------------------------------------------------------------------------
(* Terminal paths: TTYDConfig.terminal_path, get_terminal_path_for_route and *)
(* the endpoints configure_routes registers under them                       *)

\* The mount paths of the configurations built: root and one other.
MountPaths == {DefaultMountPath, <<"/", "a">>}

\* What follows the terminal path in a request: the WebSocket endpoint and a
\* proxied resource.
SubPaths == {<<"/", "w", "s">>, <<"/", "a">>}

is_root_mounted(mount) == mount = Slash

terminal_path(mount) ==
    IF is_root_mounted(mount) THEN Terminal ELSE mount \o Terminal

get_terminal_path_for_route(mount, route_path) ==
    IF route_path = Slash THEN terminal_path(mount) ELSE route_path \o Terminal

\* configure_routes: for each descriptor, in table order, the terminal path
\* under which its WebSocket and proxy endpoints are registered.
ConfigureRoutes ==
    /\ build_status = "ok"
    /\ endpoints = << >>
    /\ script_configs # << >>
    /\ endpoints' = [i \in 1..Len(script_configs) |->
                        get_terminal_path_for_route(mount_path,
                                                    script_configs[i].route_path)]
    /\ UNCHANGED <<tvars, script_configs, avars, given_ports>>
    /\ UNCHANGED <<debug, pvars, osvars, ctl, loopvars, hist, lvars>>
    /\ UNCHANGED <<thvars, client_script, mount_path, handler_route, cmdvars,
                   rlvars, pxvars, mount_in, mount_out, apps>>

\* A request under the terminal path of route i reaches the proxy, which
\* resolves its path with get_script_config_for_path.
ResolveTerminal ==
    /\ endpoints # << >>
    /\ resolve_calls = 0
    /\ \E i \in 1..Len(script_configs) : \E sub \in SubPaths :
          /\ handler_route' = i
          /\ req_path' = endpoints[i] \o sub
          /\ resolved' = get_script_config_for_path(script_configs,
                                                    endpoints[i] \o sub)
    /\ prev_resolved' = resolved
    /\ resolve_calls' = 1
    /\ script_configs' = table_after_resolve(script_configs)
    /\ UNCHANGED <<raw_routes, build_status, error_path, avars, given_ports>>
    /\ UNCHANGED <<debug, pvars, osvars, ctl, loopvars, hist, lvars>>
    /\ UNCHANGED <<thvars, client_script, mount_path, endpoints, cmdvars,
                   rlvars, pxvars, mount_in, mount_out, apps>>

NextMount == Build \/ ConfigureRoutes \/ ResolveTerminal

SpecMount == InitTableWith(MountPaths) /\ [][NextMount]_vars

\* C32: a request under the terminal path of a descriptor is resolved to that
\* descriptor.
C32_TerminalPathResolvesToOwner ==
    handler_route # 0 => resolved = <<script_configs[handler_route]>>

\* C33: the terminal paths registered for distinct descriptors are distinct.
C33_TerminalPathsDistinct ==
    \A i, j \in 1..Len(endpoints) : i # j => endpoints[i] # endpoints[j]


-----------------------------------------------------------------------------
(* Isolation of routes, and what removing a record presumes *)

\* The step of start_process that runs _kill_process_on_port for route cur.
KillStep == pc = "sp_check" /\ pc' = "sp_recheck"

C35_RecordRemovedOnlyWhenExited ==
    [][\A r \in Recorded :
          (processes[r] # NoProc /\ processes'[r] = NoProc) =>
             os_procs'[processes[r]].st = "exited"]_vars


\* C36: in a check_health snapshot process_count is the number of entries
\* whose status is "running".
C36_ProcessCountIsRunningCount ==
    (pc = "returned" /\ result.op = "check_health") =>
        health[1].process_count =
            Cardinality({r \in Routes : health[1].processes[r].status = "running"})


-----------------------------------------------------------------------------
(* restart_process: failure *)

\* restart_process has ended for a route of the table with the exception of
\* its start_process.
RestartFailed ==
    /\ pc = "returned"
    /\ result.op = "restart_process"
    /\ result.route # UnknownRoute
    /\ result.outcome # "ok"

\* restart_process is called with a path that is not in the table.
RestartOfUnknown ==
    /\ pc = "idle"
    /\ pc' = "returned"
    /\ result'.op = "restart_process"
    /\ result'.route = UnknownRoute

\* C37: a restart whose start fails leaves the route without a record, and
\* check_health reports it stopped; a restart of a path that is not in the
\* table raises TTYDStartupError and neither signals nor spawns a process.
C37_RestartHasNoRollback ==
    /\ [](RestartFailed =>
             /\ NoRecord(result.route)
             /\ check_health.processes[result.route].status = "stopped"
             /\ check_health.processes[result.route].pid = NoProc)
    /\ [][RestartOfUnknown =>
             /\ result'.outcome = "TTYDStartupError"
             /\ UNCHANGED <<pvars, osvars, foreign>>]_vars

\* A route that had a backend was restarted and the new backend exited while
\* start_process was polling it: the first is stopped, the second gone, and
\* the route has no record.
C37_Witness ==
    /\ RestartFailed
    /\ result.outcome = "TTYDStartupError"
    /\ next_pid = 3
    /\ os_procs[1].st = "exited"
    /\ os_procs[2].st = "exited"
    /\ os_procs[1].port = script_configs[result.route].port
    /\ NoRecord(result.route)


-----------------------------------------------------------------------------
(* TTYDConfig.validate_mount_path *)

MaxMountLen == 6

\* The mount_path arguments tried: every string of slashes and letters up to
\* the bound, and the reserved path with and without slashes around it.
MountInputs ==
    UNION {[1..k -> Alphabet] : k \in 0..MaxMountLen}
    \cup {pre \o Tail(Terminal) \o suf :
             pre \in {<< >>, Slash},
             suf \in {<< >>, Slash, <<"/", "/">>, <<"/", "a">>}}

validate_mount_path(v) ==
    IF v \in {<< >>, Slash}
    THEN [status |-> "ok", value |-> Slash]
    ELSE LET w == IF ~startswith(v, Slash) THEN Slash \o v ELSE v
             x == rstrip(w, "/")
         IN  IF x = Terminal
             THEN [status |-> "ConfigurationError", value |-> << >>]
             ELSE [status |-> "ok", value |-> x]

\* TTYDConfig(mount_path=v, ...): the field validator runs on the argument.
ValidateMountPath ==
    /\ mount_out = NoMount
    /\ \E v \in MountInputs :
          /\ mount_in' = <<v>>
          /\ mount_out' = validate_mount_path(v)
          /\ mount_path' = IF validate_mount_path(v).status = "ok"
                           THEN validate_mount_path(v).value
                           ELSE mount_path
    /\ UNCHANGED <<tvars, script_configs, avars, given_ports>>
    /\ UNCHANGED <<debug, pvars, osvars, ctl, loopvars, hist, lvars>>
    /\ UNCHANGED <<thvars, client_script, endpoints, handler_route, cmdvars,
                   rlvars, pxvars, apps>>

SpecMountPath == InitTable /\ [][ValidateMountPath]_vars

\* The strings "/".."/" of every length up to n, the empty one included.
Slashes(n) == {[i \in 1..k |-> "/"] : k \in 0..n}

\* The argument is the reserved path, its leading slash possibly left out and
\* slashes possibly following it.
NamesReserved(v) ==
    \E suf \in Slashes(MaxMountLen) :
        v = Terminal \o suf \/ v = Tail(Terminal) \o suf

\* C38: validate_mount_path raises ConfigurationError exactly for the
\* reserved path, and otherwise returns "/" or a value that starts with "/"
\* and does not end with "/"; "" and "/" give "/".
C38_MountPathNormalForm ==
    mount_out # NoMount =>
        /\ mount_out.status \in {"ok", "ConfigurationError"}
        /\ mount_out.status = "ConfigurationError" <=> NamesReserved(mount_in[1])
        /\ mount_out.status = "ok" =>
              \/ mount_out.value = Slash
              \/ /\ startswith(mount_out.value, Slash)
                 /\ ~endswith(mount_out.value, Slash)
        /\ mount_in[1] \in {<< >>, Slash} => mount_out = [status |-> "ok", value |-> Slash]


-----------------------------------------------------------------------------
(* ServeWithConfig.serve_apps and the startup of the application             *)

MaxServeCalls == 2

\* Mutant: the sentinel on app.state is never found.
attached_never(app) == FALSE

\* getattr(app.state, "_terminaide_lifespan_attached", False)
attached(app) == app.sentinel

\* serve_apps(config) for app a: the proxy header middleware is added when
\* asked for and not there yet; an app that carries the sentinel is left as
\* it is; otherwise the sentinel is set and app.router.lifespan_context is
\* replaced by terminaide_merged_lifespan around the one it had.
ServeApps(a) ==
    /\ apps[a].calls < MaxServeCalls
    /\ \E trust_proxy_headers \in BOOLEAN :
          LET app == apps[a]
              mw == IF trust_proxy_headers /\ app.middleware = 0
                    THEN 1 ELSE app.middleware
          IN  apps' = [apps EXCEPT ![a] =
                  IF attached(app)
                  THEN [app EXCEPT !.calls = @ + 1, !.middleware = mw]
                  ELSE [app EXCEPT !.calls = @ + 1, !.middleware = mw,
                                   !.sentinel = TRUE,
                                   !.lifespan_context =
                                       Append(@, "terminaide_lifespan")]]
    /\ UNCHANGED <<tvars, script_configs, avars, given_ports>>
    /\ UNCHANGED <<debug, pvars, osvars, ctl, loopvars, hist, lvars>>
    /\ UNCHANGED <<thvars, client_script, mount_path, endpoints, handler_route,
                   mount_in, mount_out, cmdvars, rlvars, pxvars>>

app_frame == <<tvars, script_configs, avars, given_ports, debug, pvars, osvars,
               ctl, loopvars, hist, lvars, thvars, client_script, mount_path,
               endpoints, handler_route, mount_in, mount_out, cmdvars, rlvars,
               pxvars>>

\* The server starts app a: it enters the lifespan context the router has at
\* that moment, the wrapped (original) context before the one wrapping it.
AppStartup(a) ==
    /\ apps[a].startup = "none"
    /\ apps' = [apps EXCEPT ![a].startup = "entering",
                            ![a].run = apps[a].lifespan_context,
                            ![a].todo = apps[a].lifespan_context]
    /\ UNCHANGED app_frame

\* The next context is entered. The default one does nothing; for
\* terminaide_lifespan, configure_app constructs the TTYDManager.
EnterContext(a) ==
    /\ apps[a].startup = "entering"
    /\ apps[a].entering = "none"
    /\ apps[a].todo # << >>
    /\ apps' = [apps EXCEPT ![a] =
          IF Head(apps[a].todo) = "terminaide_lifespan"
          THEN [@ EXCEPT !.entering = "configured", !.managers = @ + 1]
          ELSE [@ EXCEPT !.todo = Tail(@)]]
    /\ UNCHANGED app_frame

\* terminaide_lifespan: ttyd_manager.start(), then the yield, which enters
\* what is wrapped around it or ends the startup.
StartAll(a) ==
    /\ apps[a].entering = "configured"
    /\ apps' = [apps EXCEPT ![a].entering = "none", ![a].starts = @ + 1,
                            ![a].todo = Tail(@)]
    /\ UNCHANGED app_frame

\* Every context entered: the application serves.
StartupComplete(a) ==
    /\ apps[a].startup = "entering"
    /\ apps[a].entering = "none"
    /\ apps[a].todo = << >>
    /\ apps' = [apps EXCEPT ![a].startup = "complete"]
    /\ UNCHANGED app_frame

NextAttach ==
    \E a \in Apps :
        \/ ServeApps(a)
        \/ AppStartup(a)
        \/ EnterContext(a)
        \/ StartAll(a)
        \/ StartupComplete(a)

SpecAttach == Init /\ [][NextAttach]_vars

\* The number of terminaide lifespans in a lifespan context.
Wraps(ctx) == Cardinality({i \in 1..Len(ctx) : ctx[i] = "terminaide_lifespan"})

\* C39: after any number of serve_apps calls on an app its lifespan context
\* holds the terminaide lifespan once, around the original one; a startup of
\* the app constructs at most one manager and calls start() at most once, and
\* exactly once each when the app was attached before it started.
C39_AttachOnce ==
    \A a \in Apps :
        /\ apps[a].calls >= 1 =>
              apps[a].lifespan_context = <<"default", "terminaide_lifespan">>
        /\ apps[a].managers <= 1
        /\ apps[a].starts <= 1
        /\ (apps[a].startup = "complete" /\ Wraps(apps[a].run) >= 1) =>
              (apps[a].managers = 1 /\ apps[a].starts = 1)

\* An app was given to serve_apps as often as the bound allows and then
\* started: one manager, one start().
C39_Witness ==
    \E a \in Apps :
        /\ apps[a].calls = MaxServeCalls
        /\ apps[a].startup = "complete"
        /\ Wraps(apps[a].run) = 1
        /\ apps[a].managers = 1
        /\ apps[a].starts = 1

=============================================================================
